---- MODULE Spec2Model ----
(***************************************************************************)
(* Kanban board storage (src/src/core.ts, createStorage): the index file,  *)
(* the card files, the nine mutation operations and readState, together    *)
(* with an external actor that edits the file tree between operations.     *)
(***************************************************************************)
EXTENDS Integers, Sequences, FiniteSets, TLC

VARIABLES
    indexFile,        \* content of .vscode-kanban/index.json
    cardFiles,        \* card id -> content of .vscode-kanban/cards/<id>.md
    DEFAULT_COLUMNS,  \* the module-level array normalizeIndex falls back to
    nextId,           \* number of ids generateId has produced so far
    pc,               \* "idle", or "loading" while readState loads the cards
    run,              \* locals of the running readState
    ret,              \* the StatePayload of the readState that just returned
    last,             \* the operation that completed last, and how it ended
    ops,              \* number of mutations and external edits so far
    handlers,         \* the running invocations of the webview message handler
    otherIndexFile    \* the index file of a second storage, over another root

vars ==
    <<indexFile, cardFiles, DEFAULT_COLUMNS, nextId, pc, run, ret, last, ops, handlers,
      otherIndexFile>>

----------------------------------------------------------------------------
(* Bounds of the model                                                     *)

MaxOps == 3        \* mutations and external edits in one behaviour

----------------------------------------------------------------------------
(* Values                                                                  *)

\* A JSON value that is not a string (a number, null, an object).
NonString == "<non-string>"
IsString(v) == v # NonString

None == [kind |-> "none"]

\* generateId: time-ordered opaque tokens, the n-th one generated.
generateId(n) ==
    CASE n = 1 -> "c1" [] n = 2 -> "c2" [] n = 3 -> "c3" [] n = 4 -> "c4"
      [] OTHER -> "c5"

\* Card files authored by hand, outside the program.
ExtIds == {"x"}
CardIds == {generateId(1)} \cup ExtIds

Range(s) == {s[i] : i \in DOMAIN s}

Get(order, k) == IF k \in DOMAIN order THEN order[k] ELSE <<>>
SetKey(order, k, v) ==
    [x \in (DOMAIN order) \cup {k} |-> IF x = k THEN v ELSE order[x]]
DelKey(order, k) == [x \in (DOMAIN order) \ {k} |-> order[x]]

BlankStrings == {"", "   "}
trim(s) ==
    CASE s \in BlankStrings -> ""
      [] s = " First " -> "First"
      [] s = " Renamed " -> "Renamed"
      [] OTHER -> s

slugify(title) ==
    CASE title = "Todo" -> "todo"
      [] title = "New Col" -> "new-col"
      [] title = "###" -> "column"
      [] OTHER -> "column"

\* `${baseId}-${counter}`
Suffixed(baseId, counter) ==
    CASE baseId = "todo" /\ counter = 1 -> "todo-1"
      [] baseId = "todo" /\ counter = 2 -> "todo-2"
      [] baseId = "todo" /\ counter = 3 -> "todo-3"
      [] baseId = "todo" /\ counter = 4 -> "todo-4"
      [] baseId = "new-col" /\ counter = 1 -> "new-col-1"
      [] baseId = "new-col" /\ counter = 2 -> "new-col-2"
      [] baseId = "column" /\ counter = 1 -> "column-1"
      [] baseId = "column" /\ counter = 2 -> "column-2"
      [] OTHER -> "overflow"

RECURSIVE uniqueFrom(_, _, _, _)
uniqueFrom(existing, baseId, candidate, counter) ==
    IF candidate \in existing
    THEN uniqueFrom(existing, baseId, Suffixed(baseId, counter), counter + 1)
    ELSE candidate

\* ensureUniqueColumnId counting from 2: `${baseId}-${++counter}`.
ensureUniqueColumnIdPreIncrements(columns, baseId) ==
    uniqueFrom({columns[i].id : i \in DOMAIN columns}, baseId, baseId, 2)

ensureUniqueColumnId(columns, baseId) ==
    uniqueFrom({columns[i].id : i \in DOMAIN columns}, baseId, baseId, 1)

----------------------------------------------------------------------------
(* The index document                                                      *)

InitialDefaults ==
    << [id |-> "todo", title |-> "TODO"],
       [id |-> "doing", title |-> "Doing"],
       [id |-> "done", title |-> "Done"] >>

EmptyOrder == [k \in {} |-> <<>>]
EmptyRaw == [columns |-> <<>>, order |-> EmptyOrder]

WellFormedColumn(column) == IsString(column.id) /\ IsString(column.title)

\* raw.columns absent, not an array or empty is the empty sequence here; a
\* raw.order[k] absent or not an array is a key outside DOMAIN raw.order.
\* aliased: the result's columns array is the DEFAULT_COLUMNS array itself.
\* normalizeIndex taking the lists of raw.order over as they are.
normalizeIndexKeepsEntries(raw) ==
    LET parsed == SelectSeq(raw.columns, WellFormedColumn)
        aliased == Len(parsed) = 0
        columns == IF aliased THEN DEFAULT_COLUMNS ELSE parsed
        ids == {columns[i].id : i \in DOMAIN columns}
    IN  [columns |-> columns,
         order |-> [k \in ids |-> IF k \in DOMAIN raw.order THEN raw.order[k] ELSE <<>>],
         aliased |-> aliased]

normalizeIndex(raw) ==
    LET parsed == SelectSeq(raw.columns, WellFormedColumn)
        aliased == Len(parsed) = 0
        columns == IF aliased THEN DEFAULT_COLUMNS ELSE parsed
        ids == {columns[i].id : i \in DOMAIN columns}
    IN  [columns |-> columns,
         order |-> [k \in ids |->
                      IF k \in DOMAIN raw.order
                      THEN SelectSeq(raw.order[k], IsString)
                      ELSE <<>>],
         aliased |-> aliased]

\* JSON.stringify of {columns, order}, replacing the file.
writeIndex(index) ==
    [kind |-> "json", columns |-> index.columns, order |-> index.order]

\* A missing file, unparsable text and the JSON text null all end in the catch.
readIndexFrom(file) ==
    IF file.kind = "json"
    THEN [index |-> normalizeIndex(file), file |-> file, wrote |-> FALSE]
    ELSE LET index == normalizeIndex(EmptyRaw)
         IN  [index |-> index, file |-> writeIndex(index), wrote |-> TRUE]

readIndex == readIndexFrom(indexFile)

ColumnIds(index) == {index.columns[i].id : i \in DOMAIN index.columns}

----------------------------------------------------------------------------
(* Outcomes of an operation: what it reports and the files it leaves       *)

Outcome(result, file, cards, defaults, wrote, gen) ==
    [result |-> result, file |-> file, cards |-> cards,
     defaults |-> defaults, wrote |-> wrote, gen |-> gen]

\* A throw before anything was read or written.
Rejected(message) ==
    Outcome(message, indexFile, cardFiles, DEFAULT_COLUMNS, FALSE, nextId)

\* A throw after readIndex returned r.
RejectedAfterRead(message, r) ==
    Outcome(message, r.file, cardFiles, DEFAULT_COLUMNS, r.wrote, nextId)

\* Mutating index.columns in place mutates DEFAULT_COLUMNS when they are the
\* same array.
Defaults(index, columns) == IF index.aliased THEN columns ELSE DEFAULT_COLUMNS

Field(data, name, default) == IF name \in DOMAIN data THEN data[name] ELSE default
Has(data, name) == name \in DOMAIN data /\ data[name] # ""

Remove(list, cardId) == SelectSeq(list, LAMBDA id : id # cardId)

Max(a, b) == IF a >= b THEN a ELSE b
Min(a, b) == IF a <= b THEN a ELSE b

\* list.splice(insertIndex, 0, cardId)
Splice(list, insertIndex, cardId) ==
    SubSeq(list, 1, insertIndex) \o <<cardId>> \o SubSeq(list, insertIndex + 1, Len(list))

\* array.splice(removeIndex, 1), removeIndex counted from 1 here
SpliceOut(columns, removeIndex) ==
    SubSeq(columns, 1, removeIndex - 1) \o SubSeq(columns, removeIndex + 1, Len(columns))

\* The file createCard and updateCard write for a title.
CardContent(title) == [title |-> title]

deleteCardFiles(cards, cardIds) ==
    [id \in (DOMAIN cards) \ Range(cardIds) |-> cards[id]]

----------------------------------------------------------------------------
(* The nine mutation operations                                            *)

\* Mutant: the new id is put at the head of the column's list.
createCardUnshifts(data, r, cardId) ==
    LET columnId == Field(data, "columnId", "todo")
        title == Field(data, "title", "")
    IN  IF trim(title) = "" THEN Rejected("Title is empty.")
        ELSE
        LET index == r.index
            safeColumnId ==
                IF columnId \in ColumnIds(index) THEN columnId
                ELSE IF Len(index.columns) > 0 THEN index.columns[1].id
                ELSE "todo"
            cards == [id \in (DOMAIN cardFiles) \cup {cardId} |->
                        IF id = cardId THEN CardContent(trim(title)) ELSE cardFiles[id]]
            order == SetKey(index.order, safeColumnId,
                            <<cardId>> \o Get(index.order, safeColumnId))
        IN  Outcome("ok", writeIndex([index EXCEPT !.order = order]), cards,
                    DEFAULT_COLUMNS, TRUE, nextId + 1)

createCardWith(data, r, cardId) ==
    LET columnId == Field(data, "columnId", "todo")
        title == Field(data, "title", "")
    IN  IF trim(title) = "" THEN Rejected("Title is empty.")
        ELSE
        LET index == r.index
            safeColumnId ==
                IF columnId \in ColumnIds(index) THEN columnId
                ELSE IF Len(index.columns) > 0 THEN index.columns[1].id
                ELSE "todo"
            cards == [id \in (DOMAIN cardFiles) \cup {cardId} |->
                        IF id = cardId THEN CardContent(trim(title)) ELSE cardFiles[id]]
            order == SetKey(index.order, safeColumnId,
                            Append(Get(index.order, safeColumnId), cardId))
        IN  Outcome("ok", writeIndex([index EXCEPT !.order = order]), cards,
                    DEFAULT_COLUMNS, TRUE, nextId + 1)

createCard(data) == createCardWith(data, readIndex, generateId(nextId + 1))

\* Mutant: the file is written before the card is found missing.
updateCardWritesFirst(data) ==
    LET title == Field(data, "title", "")
    IN  IF ~Has(data, "cardId") THEN Rejected("Missing card ID.")
        ELSE IF trim(title) = "" THEN Rejected("Title is empty.")
        ELSE LET cards == [id \in (DOMAIN cardFiles) \cup {data.cardId} |->
                              IF id = data.cardId THEN CardContent(trim(title))
                              ELSE cardFiles[id]]
             IN  Outcome(IF data.cardId \in DOMAIN cardFiles THEN "ok"
                         ELSE "Card not found.",
                         indexFile, cards, DEFAULT_COLUMNS, FALSE, nextId)

\* Mutant: updateCard starts with readIndex as the index operations do.
updateCardViaReadIndex(data) ==
    LET title == Field(data, "title", "")
    IN  IF ~Has(data, "cardId") THEN Rejected("Missing card ID.")
        ELSE IF trim(title) = "" THEN Rejected("Title is empty.")
        ELSE IF data.cardId \notin DOMAIN cardFiles
        THEN Outcome("Card not found.", readIndex.file, cardFiles,
                     DEFAULT_COLUMNS, readIndex.wrote, nextId)
        ELSE Outcome("ok", readIndex.file,
                     [cardFiles EXCEPT ![data.cardId] = CardContent(trim(title))],
                     DEFAULT_COLUMNS, readIndex.wrote, nextId)

updateCard(data) ==
    LET title == Field(data, "title", "")
    IN  IF ~Has(data, "cardId") THEN Rejected("Missing card ID.")
        ELSE IF trim(title) = "" THEN Rejected("Title is empty.")
        ELSE IF data.cardId \notin DOMAIN cardFiles THEN Rejected("Card not found.")
        ELSE Outcome("ok", indexFile,
                     [cardFiles EXCEPT ![data.cardId] = CardContent(trim(title))],
                     DEFAULT_COLUMNS, FALSE, nextId)

\* Mutant: the id is removed from the first list that holds it only.
deleteCardFromOneList(data, r) ==
    IF ~Has(data, "cardId") THEN Rejected("Missing card ID.")
    ELSE
    LET index == r.index
        holds(i) == data.cardId \in Range(Get(index.order, index.columns[i].id))
        order == [k \in DOMAIN index.order |->
                    IF \E i \in DOMAIN index.columns :
                          /\ index.columns[i].id = k
                          /\ holds(i)
                          /\ \A j \in 1..(i - 1) : ~holds(j)
                    THEN Remove(index.order[k], data.cardId)
                    ELSE index.order[k]]
    IN  Outcome("ok", writeIndex([index EXCEPT !.order = order]),
                deleteCardFiles(cardFiles, <<data.cardId>>),
                DEFAULT_COLUMNS, TRUE, nextId)

deleteCardWith(data, r) ==
    IF ~Has(data, "cardId") THEN Rejected("Missing card ID.")
    ELSE
    LET index == r.index
        order == [k \in DOMAIN index.order |->
                    IF k \in ColumnIds(index)
                    THEN Remove(index.order[k], data.cardId)
                    ELSE index.order[k]]
    IN  Outcome("ok", writeIndex([index EXCEPT !.order = order]),
                deleteCardFiles(cardFiles, <<data.cardId>>),
                DEFAULT_COLUMNS, TRUE, nextId)

deleteCard(data) == deleteCardWith(data, readIndex)

\* moveCard with the destination list taken before the removal.
moveCardReadsDestinationFirst(data, r) ==
    IF ~Has(data, "cardId") \/ ~Has(data, "fromColumnId")
       \/ ~Has(data, "toColumnId") \/ "toIndex" \notin DOMAIN data
    THEN Rejected("Missing move information.")
    ELSE
    LET index == r.index
        fromList == Get(index.order, data.fromColumnId)
        toList == Get(index.order, data.toColumnId)
        order1 == SetKey(index.order, data.fromColumnId, Remove(fromList, data.cardId))
        insertIndex == Max(0, Min(data.toIndex, Len(toList)))
        order2 == SetKey(order1, data.toColumnId, Splice(toList, insertIndex, data.cardId))
    IN  Outcome("ok", writeIndex([index EXCEPT !.order = order2]), cardFiles,
                DEFAULT_COLUMNS, TRUE, nextId)

moveCardWith(data, r) ==
    IF ~Has(data, "cardId") \/ ~Has(data, "fromColumnId")
       \/ ~Has(data, "toColumnId") \/ "toIndex" \notin DOMAIN data
    THEN Rejected("Missing move information.")
    ELSE
    LET index == r.index
        fromList == Get(index.order, data.fromColumnId)
        order1 == SetKey(index.order, data.fromColumnId, Remove(fromList, data.cardId))
        toList == Get(order1, data.toColumnId)
        insertIndex == Max(0, Min(data.toIndex, Len(toList)))
        order2 == SetKey(order1, data.toColumnId, Splice(toList, insertIndex, data.cardId))
    IN  Outcome("ok", writeIndex([index EXCEPT !.order = order2]), cardFiles,
                DEFAULT_COLUMNS, TRUE, nextId)

moveCard(data) == moveCardWith(data, readIndex)

\* reorderCards keeping only the ids that have a card file.
reorderCardsKeepsExisting(data, r) ==
    IF ~Has(data, "columnId") \/ "orderedIds" \notin DOMAIN data
    THEN Rejected("Missing reorder information.")
    ELSE
    LET index == r.index
        orderedIds == SelectSeq(data.orderedIds, LAMBDA id : id \in DOMAIN cardFiles)
        order == SetKey(index.order, data.columnId, orderedIds)
    IN  Outcome("ok", writeIndex([index EXCEPT !.order = order]), cardFiles,
                DEFAULT_COLUMNS, TRUE, nextId)

reorderCardsWith(data, r) ==
    IF ~Has(data, "columnId") \/ "orderedIds" \notin DOMAIN data
    THEN Rejected("Missing reorder information.")
    ELSE
    LET index == r.index
        order == SetKey(index.order, data.columnId, SelectSeq(data.orderedIds, IsString))
    IN  Outcome("ok", writeIndex([index EXCEPT !.order = order]), cardFiles,
                DEFAULT_COLUMNS, TRUE, nextId)

reorderCards(data) == reorderCardsWith(data, readIndex)

updateColumnWith(data, r) ==
    LET title == Field(data, "title", "")
    IN  IF ~Has(data, "columnId") \/ trim(title) = ""
        THEN Rejected("Missing column information.")
        ELSE
        LET index == r.index
        IN  IF data.columnId \notin ColumnIds(index)
            THEN RejectedAfterRead("Column not found.", r)
            ELSE
            LET found == CHOOSE i \in DOMAIN index.columns :
                            /\ index.columns[i].id = data.columnId
                            /\ \A j \in 1..(i - 1) : index.columns[j].id # data.columnId
                columns == [index.columns EXCEPT ![found].title = trim(title)]
            IN  Outcome("ok", writeIndex([index EXCEPT !.columns = columns]), cardFiles,
                        Defaults(index, columns), TRUE, nextId)

updateColumn(data) == updateColumnWith(data, readIndex)

\* columnMap: the columns keyed by id, in first-insertion order, a later
\* column of the same id replacing the value of an earlier one.
columnMapKeys(columns) == [i \in DOMAIN columns |-> columns[i].id]

RECURSIVE firstOccurrences(_)
firstOccurrences(ids) ==
    IF Len(ids) = 0 THEN <<>>
    ELSE LET init == firstOccurrences(SubSeq(ids, 1, Len(ids) - 1))
             x == ids[Len(ids)]
         IN  IF x \in Range(init) THEN init ELSE Append(init, x)

columnMapGet(columns, id) ==
    LET lastIdx == CHOOSE i \in DOMAIN columns :
                      /\ columns[i].id = id
                      /\ \A j \in (i + 1)..Len(columns) : columns[j].id # id
    IN  columns[lastIdx]

\* reorderColumns keeping only the columns orderedIds names.
reorderColumnsDropsUnnamed(data, r) ==
    IF "orderedIds" \notin DOMAIN data
    THEN Rejected("Missing column order information.")
    ELSE
    LET index == r.index
        orderedIds == SelectSeq(data.orderedIds, IsString)
        keys == firstOccurrences(columnMapKeys(index.columns))
        picked == firstOccurrences(SelectSeq(orderedIds, LAMBDA id : id \in Range(keys)))
        nextColumns == [i \in DOMAIN picked |-> columnMapGet(index.columns, picked[i])]
    IN  Outcome("ok", writeIndex([index EXCEPT !.columns = nextColumns]), cardFiles,
                DEFAULT_COLUMNS, TRUE, nextId)

reorderColumnsWith(data, r) ==
    IF "orderedIds" \notin DOMAIN data
    THEN Rejected("Missing column order information.")
    ELSE
    LET index == r.index
        orderedIds == SelectSeq(data.orderedIds, IsString)
        keys == firstOccurrences(columnMapKeys(index.columns))
        picked == firstOccurrences(SelectSeq(orderedIds, LAMBDA id : id \in Range(keys)))
        rest == SelectSeq(keys, LAMBDA id : id \notin Range(picked))
        nextIds == picked \o rest
        nextColumns == [i \in DOMAIN nextIds |-> columnMapGet(index.columns, nextIds[i])]
    IN  Outcome("ok", writeIndex([index EXCEPT !.columns = nextColumns]), cardFiles,
                DEFAULT_COLUMNS, TRUE, nextId)

reorderColumns(data) == reorderColumnsWith(data, readIndex)

\* createColumn taking the slug of the title as the id, taken or not.
createColumnUsesBaseId(data, r) ==
    LET title == Field(data, "title", "")
    IN  IF trim(title) = "" THEN Rejected("Column name is empty.")
        ELSE
        LET index == r.index
            columnId == slugify(trim(title))
            columns == Append(index.columns, [id |-> columnId, title |-> trim(title)])
            order == SetKey(index.order, columnId, <<>>)
        IN  Outcome("ok", writeIndex([index EXCEPT !.columns = columns, !.order = order]),
                    cardFiles, Defaults(index, columns), TRUE, nextId)

createColumnWith(data, r) ==
    LET title == Field(data, "title", "")
    IN  IF trim(title) = "" THEN Rejected("Column name is empty.")
        ELSE
        LET index == r.index
            baseId == slugify(trim(title))
            columnId == ensureUniqueColumnId(index.columns, baseId)
            columns == Append(index.columns, [id |-> columnId, title |-> trim(title)])
            order == SetKey(index.order, columnId, <<>>)
        IN  Outcome("ok", writeIndex([index EXCEPT !.columns = columns, !.order = order]),
                    cardFiles, Defaults(index, columns), TRUE, nextId)

createColumn(data) == createColumnWith(data, readIndex)

\* Mutant: the guard only refuses on an empty board.
IsLastColumnOffByOne(columns) == Len(columns) < 1

\* The guard that refuses to delete the last column.
IsLastColumn(columns) == Len(columns) <= 1

\* deleteColumn reading the list of the column after deleting its entry.
deleteColumnReadsListLate(data, r) ==
    IF ~Has(data, "columnId") THEN Rejected("Missing column ID.")
    ELSE
    LET index == r.index
    IN  IF IsLastColumn(index.columns)
        THEN RejectedAfterRead("Cannot delete the last column.", r)
        ELSE IF data.columnId \notin ColumnIds(index)
        THEN RejectedAfterRead("Column not found.", r)
        ELSE
        LET removeIndex == CHOOSE i \in DOMAIN index.columns :
                              /\ index.columns[i].id = data.columnId
                              /\ \A j \in 1..(i - 1) : index.columns[j].id # data.columnId
            columns == SpliceOut(index.columns, removeIndex)
            order == DelKey(index.order, data.columnId)
            removedCards == Get(order, data.columnId)
        IN  Outcome("ok", writeIndex([index EXCEPT !.columns = columns, !.order = order]),
                    deleteCardFiles(cardFiles, removedCards),
                    Defaults(index, columns), TRUE, nextId)

deleteColumnWith(data, r) ==
    IF ~Has(data, "columnId") THEN Rejected("Missing column ID.")
    ELSE
    LET index == r.index
    IN  IF IsLastColumn(index.columns)
        THEN RejectedAfterRead("Cannot delete the last column.", r)
        ELSE IF data.columnId \notin ColumnIds(index)
        THEN RejectedAfterRead("Column not found.", r)
        ELSE
        LET removeIndex == CHOOSE i \in DOMAIN index.columns :
                              /\ index.columns[i].id = data.columnId
                              /\ \A j \in 1..(i - 1) : index.columns[j].id # data.columnId
            removedCards == Get(index.order, data.columnId)
            columns == SpliceOut(index.columns, removeIndex)
            order == DelKey(index.order, data.columnId)
        IN  Outcome("ok", writeIndex([index EXCEPT !.columns = columns, !.order = order]),
                    deleteCardFiles(cardFiles, removedCards),
                    Defaults(index, columns), TRUE, nextId)

deleteColumn(data) == deleteColumnWith(data, readIndex)

----------------------------------------------------------------------------
(* readState                                                               *)

\* Every order in which readDirectory may list the files of a set.
RECURSIVE Listings(_)
Listings(ids) ==
    IF ids = {} THEN {<<>>}
    ELSE UNION {{<<id>> \o rest : rest \in Listings(ids \ {id})} : id \in ids}

\* Mutant: the lists are taken over without looking at the card files.
existingOnlyUnfiltered(index, cardFileIds) ==
    [k \in ColumnIds(index) |-> Get(index.order, k)]

\* The order lists filtered to the ids that have a card file.
existingOnly(index, cardFileIds) ==
    [k \in ColumnIds(index) |->
        SelectSeq(Get(index.order, k), LAMBDA id : id \in cardFileIds)]

\* Mutant: the literal "todo" instead of the first column.
fallbackColumnIdTodo(index) == "todo"

fallbackColumnId(index) ==
    IF Len(index.columns) > 0 THEN index.columns[1].id ELSE "todo"

\* readState leaving the card files that no list holds out.
orphansIgnored(index, listing) == <<>>

\* The card files no filtered list holds, in listing order.
orphans(index, listing) ==
    LET kept == existingOnly(index, Range(listing))
        orderedIds == UNION {Range(kept[k]) : k \in DOMAIN kept}
    IN  SelectSeq(listing, LAMBDA id : id \notin orderedIds)

\* Steps 3 and 4 of readState: the repaired order and whether it changed.
reconcile(index, listing) ==
    LET kept == existingOnly(index, Range(listing))
        dropped == \E k \in DOMAIN kept : kept[k] # Get(index.order, k)
        extra == orphans(index, listing)
        target == fallbackColumnId(index)
    IN  [order |-> IF Len(extra) > 0
                   THEN SetKey(kept, target, Get(kept, target) \o extra)
                   ELSE kept,
         orderChanged |-> dropped \/ Len(extra) > 0]

\* Mutant: the repaired order is returned and never written.
persistRepairSkipped(r, rec) == r.file

\* Step 5: the index file readState leaves, given what readIndex returned.
persistRepair(r, rec) ==
    IF rec.orderChanged
    THEN writeIndex([columns |-> r.index.columns, order |-> rec.order])
    ELSE r.file

\* Mutant: a file without a metadata title is taken for unreadable.
loadCardStrict(cardId) ==
    IF cardId \in DOMAIN cardFiles /\ cardFiles[cardId].title # "Hand"
    THEN [id |-> cardId, title |-> cardFiles[cardId].title]
    ELSE None

loadCard(cardId) ==
    IF cardId \in DOMAIN cardFiles
    THEN [id |-> cardId, title |-> cardFiles[cardId].title]
    ELSE None

\* The cards map readState builds from the order lists.
loadCards(columns, order) ==
    LET ids == UNION {Range(Get(order, columns[i].id)) : i \in DOMAIN columns}
    IN  [id \in {c \in ids : loadCard(c) # None} |-> loadCard(id)]

----------------------------------------------------------------------------
(* Inputs of the model                                                     *)

ColumnArgs == {"todo", "doing", "nope"}
CardArgs == CardIds
ToIndexArgs == {-1, 0, 3}
NoData == [none |-> TRUE]

CreateCardArgs ==
    { [title |-> " First "], [title |-> "   "],
      [title |-> "Updated", columnId |-> "doing"],
      [title |-> "Updated", columnId |-> "nope"], NoData }
UpdateCardArgs ==
    {[cardId |-> c, title |-> t] : c \in CardArgs, t \in {"Updated", "   "}}
      \cup {NoData}
DeleteCardArgs == {[cardId |-> c] : c \in CardArgs} \cup {NoData}
MoveCardArgs ==
    {[cardId |-> c, fromColumnId |-> f, toColumnId |-> t, toIndex |-> n] :
        c \in CardArgs, f \in ColumnArgs, t \in ColumnArgs, n \in ToIndexArgs}
      \cup {NoData, [cardId |-> "c1", fromColumnId |-> "todo", toColumnId |-> "doing"]}
ReorderCardsArgs ==
    {[columnId |-> c, orderedIds |-> l] :
        c \in ColumnArgs,
        l \in {<<>>, <<"x", "c1">>, <<"c1", "c1">>, <<"c1", NonString>>}}
      \cup {NoData, [columnId |-> "todo"]}
UpdateColumnArgs ==
    {[columnId |-> c, title |-> t] : c \in {"todo", "nope"}, t \in {" Renamed ", "   "}}
      \cup {NoData}
ReorderColumnsArgs ==
    {[orderedIds |-> l] :
        l \in {<<"doing">>, <<"done", "nope", "done", "todo">>, <<NonString>>}}
      \cup {NoData}
CreateColumnArgs == {[title |-> "Todo"], [title |-> "   "], NoData}
DeleteColumnArgs == {[columnId |-> c] : c \in ColumnArgs \cup {"done"}} \cup {NoData}

\* What an external actor may put in place of the index file.
ExternalIndexContents ==
    { [kind |-> "missing"],
      [kind |-> "corrupt"],
      [kind |-> "json", columns |-> <<>>, order |-> [k \in {"todo"} |-> <<"x">>]],
      [kind |-> "json",
       columns |-> << [id |-> NonString, title |-> "Bad"],
                      [id |-> "doing", title |-> "Doing"] >>,
       order |-> [k \in {"doing", "ghost"} |->
                    IF k = "doing" THEN <<"c1", NonString>> ELSE <<"c1">>]],
      [kind |-> "json",
       columns |-> << [id |-> "todo", title |-> "TODO"],
                      [id |-> "doing", title |-> "Doing"] >>,
       order |-> [k \in {"todo", "doing"} |-> <<"c1">>]] }

----------------------------------------------------------------------------
(* Actions                                                                 *)

\* Two messages of the webview at most are being handled.
Handlers == {"first", "second"}

Init ==
    /\ handlers = [h \in Handlers |-> [pc |-> "none"]]
    /\ otherIndexFile = [kind |-> "missing"]
    /\ indexFile = [kind |-> "missing"]
    /\ cardFiles = [id \in {} |-> CardContent("")]
    /\ DEFAULT_COLUMNS = InitialDefaults
    /\ nextId = 0
    /\ pc = "idle"
    /\ run = None
    /\ ret = None
    /\ last = [op |-> "init", result |-> "ok"]
    /\ ops = 0

\* What is remembered of the operation that completed last: its name and
\* how it ended and, of a deleteCard that went through, the card and the
\* columns that listed it.
Completed(op, data, out) ==
    IF op = "deleteCard" /\ out.result = "ok"
    THEN [op |-> op, result |-> out.result, cardId |-> data.cardId,
          listed |-> {k \in DOMAIN readIndex.index.order :
                        data.cardId \in Range(readIndex.index.order[k])}]
    ELSE IF op = "moveCard" /\ out.result = "ok"
    THEN [op |-> op, result |-> out.result, from |-> data.fromColumnId,
          to |-> data.toColumnId,
          listed |-> data.cardId \in
                        Range(Get(readIndex.index.order, data.fromColumnId))]
    ELSE IF op = "deleteColumn" /\ out.result = "ok"
    THEN [op |-> op, result |-> out.result,
          removed |-> Range(Get(readIndex.index.order, data.columnId))
                        \cap DOMAIN cardFiles]
    ELSE IF op = "reorderCards" /\ out.result = "ok"
    THEN [op |-> op, result |-> out.result, columnId |-> data.columnId]
    ELSE [op |-> op, result |-> out.result]

\* A mutation runs to completion: the caller awaits it.
Complete(op, data, out) ==
    /\ pc = "idle"
    /\ ops < MaxOps
    /\ ops' = ops + 1
    /\ indexFile' = out.file
    /\ cardFiles' = out.cards
    /\ DEFAULT_COLUMNS' = out.defaults
    /\ nextId' = out.gen
    /\ last' = Completed(op, data, out)
    /\ ret' = None
    /\ run' = None
    /\ pc' = "idle"
    /\ UNCHANGED <<handlers, otherIndexFile>>

CreateCard == \E data \in CreateCardArgs : Complete("createCard", data, createCard(data))

UpdateCard == \E data \in UpdateCardArgs : Complete("updateCard", data, updateCard(data))

DeleteCard == \E data \in DeleteCardArgs : Complete("deleteCard", data, deleteCard(data))

MoveCard == \E data \in MoveCardArgs : Complete("moveCard", data, moveCard(data))

ReorderCards ==
    \E data \in ReorderCardsArgs : Complete("reorderCards", data, reorderCards(data))

UpdateColumn ==
    \E data \in UpdateColumnArgs : Complete("updateColumn", data, updateColumn(data))

ReorderColumns ==
    \E data \in ReorderColumnsArgs : Complete("reorderColumns", data, reorderColumns(data))

CreateColumn ==
    \E data \in CreateColumnArgs : Complete("createColumn", data, createColumn(data))

DeleteColumn ==
    \E data \in DeleteColumnArgs : Complete("deleteColumn", data, deleteColumn(data))

\* readState up to and including the repair write; the cards are loaded next.
\* run.prev is the payload of a readState that returned just before this one,
\* with nothing in between.
ReadStateBegin ==
    /\ pc = "idle"
    /\ \E listing \in Listings(DOMAIN cardFiles) :
          LET r == readIndex
              rec == reconcile(r.index, listing)
          IN  /\ indexFile' = persistRepair(r, rec)
              /\ run' = [index |-> r.index, listing |-> listing, order |-> rec.order,
                         healed |-> r.wrote, orderChanged |-> rec.orderChanged,
                         ext |-> {}, prev |-> ret,
                         deleted |-> IF last.op = "deleteCard" /\ last.result = "ok"
                                     THEN last ELSE None,
                         prevExt |-> IF ret = None THEN {} ELSE run.ext,
                         prevChanged |-> IF ret = None THEN FALSE ELSE run.orderChanged]
    /\ pc' = "loading"
    /\ UNCHANGED <<cardFiles, DEFAULT_COLUMNS, nextId, ret, last, ops, handlers, otherIndexFile>>

\* readState loads the cards and returns.
ReadStateLoad ==
    /\ pc = "loading"
    /\ ret' = [columns |-> run.index.columns, order |-> run.order,
               cards |-> loadCards(run.index.columns, run.order)]
    /\ last' = [op |-> "readState", result |-> "ok"]
    /\ pc' = "idle"
    /\ UNCHANGED <<indexFile, cardFiles, DEFAULT_COLUMNS, nextId, run, ops, handlers, otherIndexFile>>

\* An edit of the file tree from outside, at any time; run.ext records the
\* kinds of edit made while a readState is running.
External(kind) ==
    /\ ops < MaxOps
    /\ ops' = ops + 1
    /\ last' = [op |-> "external", result |-> "ok"]
    /\ ret' = None
    /\ run' = IF pc = "loading" THEN [run EXCEPT !.ext = @ \cup {kind}] ELSE None
    /\ UNCHANGED <<DEFAULT_COLUMNS, nextId, pc, handlers, otherIndexFile>>

\* A file put back under a generated id carries an id generated earlier: the
\* outside actor does not name a file after an id of the future.
ExternalAddCard ==
    \E id \in CardIds :
        /\ id \notin DOMAIN cardFiles
        /\ id \in ExtIds \/ \E n \in 1..nextId : id = generateId(n)
        /\ cardFiles' = [c \in (DOMAIN cardFiles) \cup {id} |->
                            IF c = id THEN CardContent("Hand") ELSE cardFiles[c]]
        /\ UNCHANGED indexFile
        /\ External("add")

ExternalDeleteCard ==
    \E id \in DOMAIN cardFiles :
        /\ cardFiles' = [c \in (DOMAIN cardFiles) \ {id} |-> cardFiles[c]]
        /\ UNCHANGED indexFile
        /\ External("delete")

ExternalReplaceIndex ==
    \E content \in ExternalIndexContents :
        /\ content # indexFile
        /\ indexFile' = content
        /\ UNCHANGED cardFiles
        /\ External("index")

Next ==
    \/ CreateCard
    \/ UpdateCard
    \/ DeleteCard
    \/ MoveCard
    \/ ReorderCards
    \/ UpdateColumn
    \/ ReorderColumns
    \/ CreateColumn
    \/ DeleteColumn
    \/ ReadStateBegin
    \/ ReadStateLoad
    \/ ExternalAddCard
    \/ ExternalDeleteCard
    \/ ExternalReplaceIndex

Spec == Init /\ [][Next]_vars

\* The program alone: nobody else edits the file tree.
NextOps ==
    \/ CreateCard
    \/ UpdateCard
    \/ DeleteCard
    \/ MoveCard
    \/ ReorderCards
    \/ UpdateColumn
    \/ ReorderColumns
    \/ CreateColumn
    \/ DeleteColumn
    \/ ReadStateBegin
    \/ ReadStateLoad

SpecOps == Init /\ [][NextOps]_vars

----------------------------------------------------------------------------
(* Vocabulary of the properties                                            *)

MutationOps ==
    {"createCard", "updateCard", "deleteCard", "moveCard", "reorderCards",
     "updateColumn", "reorderColumns", "createColumn", "deleteColumn"}

\* readState has just returned ret.
Returned == pc = "idle" /\ ret # None

IdsOf(columns) == {columns[i].id : i \in DOMAIN columns}

\* The ids that occur in the order lists of a payload's columns.
OrderedIds(state) ==
    UNION {Range(Get(state.order, k)) : k \in IdsOf(state.columns)}

NoRepeat(list) == \A i, j \in DOMAIN list : list[i] = list[j] => i = j

\* The step is a mutation that ended in a throw.
FailedMutation ==
    /\ pc = "idle" /\ ops' = ops + 1
    /\ last'.op \in MutationOps /\ last'.result # "ok"

----------------------------------------------------------------------------
(* C1: in every BoardState readState returns, a card id is in the order    *)
(* list of at most one column (an id the index lists under several columns *)
(* is kept in the earliest only).                                          *)
C1_OneColumnPerCard ==
    Returned =>
        \A i, j \in DOMAIN ret.columns :
            i < j /\ ret.columns[i].id # ret.columns[j].id =>
                Range(ret.order[ret.columns[i].id])
                    \cap Range(ret.order[ret.columns[j].id]) = {}

(* C2: no order list, in the persisted index or in a returned BoardState,  *)
(* holds the same card id twice.                                           *)
C2_NoRepeatInList ==
    /\ indexFile.kind = "json" /\ last.op # "init" =>
          \A k \in DOMAIN indexFile.order : NoRepeat(indexFile.order[k])
    /\ Returned => \A k \in DOMAIN ret.order : NoRepeat(ret.order[k])

(* C3, as stated: in every BoardState readState returns, the ids in the    *)
(* order lists are exactly the keys of cards, also when card files are     *)
(* added or deleted from outside while readState is running.               *)
C3_OrderMatchesCards ==
    Returned => OrderedIds(ret) = DOMAIN ret.cards

(* C3, amended: every loaded card is ordered, and the ordered ids are      *)
(* exactly the keys of cards unless a card file was deleted from outside   *)
(* while this readState was running (after its directory listing).         *)
C3_OrderMatchesCardsUnlessDeletedMidRun ==
    Returned =>
        /\ DOMAIN ret.cards \subseteq OrderedIds(ret)
        /\ "delete" \notin run.ext => OrderedIds(ret) = DOMAIN ret.cards

\* readState repaired drift left by external edits and returned cards, one of
\* them added while it was running or before it.
C3_Witness ==
    /\ Returned
    /\ "delete" \notin run.ext
    /\ run.orderChanged
    /\ "x" \in DOMAIN ret.cards
    /\ OrderedIds(ret) = DOMAIN ret.cards

\* The ids the index, as read, lists under its columns without a card file.
Stale(k) == {id \in Range(Get(run.index.order, k)) : id \notin Range(run.listing)}
Surviving(k) ==
    SelectSeq(Get(run.index.order, k), LAMBDA id : id \in Range(run.listing))
FirstColumn == run.index.columns[1].id
Persisted ==
    indexFile = [kind |-> "json", columns |-> ret.columns, order |-> ret.order]

(* C4: readState removes from each column's list exactly the ids that have *)
(* no card file, keeping the others in their order, persists the repaired  *)
(* index and loads no card for a removed id.                               *)
C4_StaleIdsDropped ==
    Returned =>
        \A k \in IdsOf(run.index.columns) :
            /\ SubSeq(ret.order[k], 1, Len(Surviving(k))) = Surviving(k)
            /\ k # FirstColumn => ret.order[k] = Surviving(k)
            /\ \A id \in Stale(k) :
                  /\ id \notin DOMAIN ret.cards
                  /\ id \notin OrderedIds(ret)
            /\ Stale(k) # {} /\ "index" \notin run.ext => Persisted

C4_Witness ==
    /\ Returned
    /\ \E k \in IdsOf(run.index.columns) :
          Stale(k) # {} /\ Len(Surviving(k)) > 0 /\ Persisted

\* The card files no column of the index, as read, lists.
Orphans ==
    Range(run.listing)
        \ UNION {Range(Get(run.index.order, k)) : k \in IdsOf(run.index.columns)}

(* C5: readState appends every card file that no order list holds to the   *)
(* end of the first column's list, after its surviving ids, persists the   *)
(* repaired index, and places no orphan in another column.                 *)
C5_OrphansToFirstColumn ==
    Returned =>
        LET first == ret.order[FirstColumn]
            tail == SubSeq(first, Len(Surviving(FirstColumn)) + 1, Len(first))
        IN  /\ SubSeq(first, 1, Len(Surviving(FirstColumn))) = Surviving(FirstColumn)
            /\ Range(tail) = Orphans
            /\ Len(tail) = Cardinality(Orphans)
            /\ \A k \in IdsOf(ret.columns) \ {FirstColumn} :
                  Range(ret.order[k]) \cap Orphans = {}
            /\ Orphans # {} /\ "index" \notin run.ext => Persisted

C5_Witness ==
    /\ Returned
    /\ Orphans # {}
    /\ FirstColumn # "todo"
    /\ Len(Surviving(FirstColumn)) > 0
    /\ Persisted

(* C6: at least one column always exists: the index as read has a          *)
(* non-empty columns array in every reachable state, whatever was put in   *)
(* place of the index file, and a deleteColumn that succeeds leaves at     *)
(* least one column in the persisted index.                                *)
C6_AtLeastOneColumn ==
    /\ Len(readIndex.index.columns) >= 1
    /\ Len(DEFAULT_COLUMNS) >= 1
    /\ Returned => Len(ret.columns) >= 1
    /\ last.op = "deleteColumn" /\ last.result = "ok" /\ indexFile.kind = "json" =>
          Len(indexFile.columns) >= 1

\* deleteColumn was refused on the only column.
C6_Witness ==
    /\ last.op = "deleteColumn"
    /\ last.result = "Cannot delete the last column."
    /\ Len(readIndex.index.columns) = 1

(* C7, as stated: a mutation that fails validation changes neither the     *)
(* index file nor any card file, whether the index file was present,       *)
(* missing or unparsable before the call.                                  *)
C7_FailedMutationChangesNothing ==
    [][FailedMutation => indexFile' = indexFile /\ cardFiles' = cardFiles]_vars

(* C7, amended: a mutation that fails validation changes no card file and  *)
(* leaves the index as read unchanged; it leaves the index file unchanged  *)
(* when the file was readable, and when the file was missing or unparsable *)
(* only updateColumn and deleteColumn, which validate the column after     *)
(* reading the index, have replaced it by the normalized default index.    *)
C7_FailedMutationKeepsCardsAndReadableIndex ==
    [][FailedMutation =>
          /\ cardFiles' = cardFiles
          /\ DEFAULT_COLUMNS' = DEFAULT_COLUMNS
          /\ (readIndex.index.columns)' = readIndex.index.columns
          /\ (readIndex.index.order)' = readIndex.index.order
          /\ indexFile.kind = "json" => indexFile' = indexFile
          /\ indexFile' # indexFile =>
                /\ last'.op \in {"updateColumn", "deleteColumn"}
                /\ indexFile' = writeIndex(normalizeIndex(EmptyRaw))]_vars

\* updateColumn named a column the index does not have.
C7_Witness ==
    /\ last.op = "updateColumn"
    /\ last.result = "Column not found."
    /\ indexFile.kind = "json"

\* The column ids a mutation's input names that the index, as read, lacks.
RefersToUnknownColumn(data) ==
    \E f \in {"columnId", "fromColumnId", "toColumnId"} :
        Has(data, f) /\ data[f] \notin ColumnIds(readIndex.index)

Refused(out) == out.result # "ok" /\ indexFile' = indexFile

(* C8: a mutation naming a column id that is no column of the index        *)
(* (updateColumn, deleteColumn, moveCard, reorderCards) is reported as a   *)
(* failure and does not write the index; checked on boards whose index     *)
(* file is readable, where reading the index writes nothing.               *)
C8_UnknownColumnRefused ==
    [][indexFile.kind = "json" =>
          /\ \A data \in MoveCardArgs :
                RefersToUnknownColumn(data) /\ Complete("moveCard", data, moveCard(data))
                    => Refused(moveCard(data))
          /\ \A data \in ReorderCardsArgs :
                RefersToUnknownColumn(data)
                    /\ Complete("reorderCards", data, reorderCards(data))
                    => Refused(reorderCards(data))
          /\ \A data \in UpdateColumnArgs :
                RefersToUnknownColumn(data)
                    /\ Complete("updateColumn", data, updateColumn(data))
                    => Refused(updateColumn(data))
          /\ \A data \in DeleteColumnArgs :
                RefersToUnknownColumn(data)
                    /\ Complete("deleteColumn", data, deleteColumn(data))
                    => Refused(deleteColumn(data))]_vars

(* C9: after every completed operation the order map of the persisted      *)
(* index file has exactly the ids of its columns array as keys.            *)
C9_OrderKeysAreColumns ==
    pc = "idle" /\ last.op # "init" /\ indexFile.kind = "json" =>
        DOMAIN indexFile.order = IdsOf(indexFile.columns)

(* C10: a readState that directly follows another readState, with no       *)
(* mutation and no external edit since the first one started, writes       *)
(* nothing to the index and returns the same columns, order and cards.     *)
C10_RepairIsDurable ==
    Returned /\ run.prev # None /\ run.prevExt = {} /\ run.ext = {} =>
        /\ ~run.healed
        /\ ~run.orderChanged
        /\ ret = run.prev

\* The first of the two readState calls repaired drift.
C10_Witness ==
    /\ Returned
    /\ run.prev # None /\ run.prevExt = {} /\ run.ext = {}
    /\ run.prevChanged
    /\ DOMAIN ret.cards # {}

----------------------------------------------------------------------------
(* Claims C11..C20                                                         *)

\* The index file gives readIndex no column: it is missing, unparsable or
\* holds no well-formed column.
NoUsableColumn ==
    \/ indexFile.kind # "json"
    \/ Len(SelectSeq(indexFile.columns, WellFormedColumn)) = 0

(* C11: whenever the index file is missing, unparsable or holds no         *)
(* well-formed column, readIndex yields exactly the three columns todo,    *)
(* doing, done with their original titles, whatever ran earlier in the     *)
(* process, and empty order lists when there is no file content to read.   *)
C11_DefaultsAreFixed ==
    NoUsableColumn =>
        /\ readIndex.index.columns = InitialDefaults
        /\ indexFile.kind # "json" =>
              \A k \in DOMAIN readIndex.index.order : readIndex.index.order[k] = <<>>

----------------------------------------------------------------------------
(* Operations while primitives of the filesystem capability fail           *)

MaxFsOps == 2

\* What an operation throws when a primitive's failure is not caught.
FsError == "filesystem error"

Primitives ==
    {"createDirectory", "readFile", "writeFile", "readDirectory", "stat", "delete"}

\* The primitives whose failure the code wraps in a try/catch.
CaughtPrimitives == {"readFile", "readDirectory", "stat", "delete"}

\* The sets of primitives that fail for the length of one operation.
FailureSets == {{}} \cup {{p} : p \in Primitives} \cup {CaughtPrimitives}

\* What readIndex gets from the index file: a failed readFile ends in the
\* same catch as a missing file.
indexFileRead(F) == IF "readFile" \in F THEN [kind |-> "missing"] ELSE indexFile

\* The messages thrown before the operation touches the filesystem.
PreReadMessages ==
    {"Title is empty.", "Missing card ID.", "Missing move information.",
     "Missing reorder information.", "Missing column information.",
     "Missing column order information.", "Column name is empty.",
     "Missing column ID."}

\* Mutant: readIndex without its try/catch.
PropagatesReadFailure(F, out) ==
    /\ out.result \notin PreReadMessages
    /\ \/ "createDirectory" \in F
       \/ "readFile" \in F
       \/ "writeFile" \in F /\ out.wrote

\* ensureStorage's createDirectory and every writeFile are awaited outside
\* any try/catch: out is what the operation does when nothing is thrown.
Propagates(F, out) ==
    /\ out.result \notin PreReadMessages
    /\ \/ "createDirectory" \in F
       \/ "writeFile" \in F /\ out.wrote

\* An operation on the index under the failures F; r is what readIndex
\* returned and out what the operation does with it when nothing is thrown.
\* A throw in the final write comes after the in-place change of the columns.
mutationUnder(F, r, out) ==
    IF Propagates(F, out)
    THEN Outcome(FsError, indexFile, cardFiles,
                 IF "createDirectory" \in F \/ r.wrote THEN DEFAULT_COLUMNS
                 ELSE out.defaults,
                 FALSE, nextId)
    ELSE IF "delete" \in F
    THEN [out EXCEPT !.cards = [id \in (DOMAIN cardFiles) \cup (DOMAIN out.cards) |->
                                  IF id \in DOMAIN out.cards THEN out.cards[id]
                                  ELSE cardFiles[id]]]
    ELSE out

\* updateCard reads no index: a failed read of the card file is its
\* "Card not found.", a failed write is thrown.
updateCardUnder(F, data) ==
    LET out == updateCard(data)
    IN  IF out.result # "ok" THEN out
        ELSE IF "readFile" \in F THEN Rejected("Card not found.")
        ELSE IF "writeFile" \in F THEN Rejected(FsError)
        ELSE out

CompleteFs(op, F, out) ==
    /\ pc = "idle"
    /\ ops < MaxFsOps
    /\ ops' = ops + 1
    /\ indexFile' = out.file
    /\ cardFiles' = out.cards
    /\ DEFAULT_COLUMNS' = out.defaults
    /\ nextId' = out.gen
    /\ last' = [op |-> op, result |-> out.result, fs |-> F]
    /\ ret' = None
    /\ run' = None
    /\ pc' = "idle"
    /\ UNCHANGED <<handlers, otherIndexFile>>

FsRead(F) == readIndexFrom(indexFileRead(F))

CreateCardFs ==
    \E F \in FailureSets, data \in CreateCardArgs :
        CompleteFs("createCard", F,
            mutationUnder(F, FsRead(F),
                createCardWith(data, FsRead(F), generateId(nextId + 1))))
UpdateCardFs ==
    \E F \in FailureSets, data \in UpdateCardArgs :
        CompleteFs("updateCard", F, updateCardUnder(F, data))
DeleteCardFs ==
    \E F \in FailureSets, data \in DeleteCardArgs :
        CompleteFs("deleteCard", F,
            mutationUnder(F, FsRead(F), deleteCardWith(data, FsRead(F))))
MoveCardFs ==
    \E F \in FailureSets, data \in MoveCardArgs :
        CompleteFs("moveCard", F,
            mutationUnder(F, FsRead(F), moveCardWith(data, FsRead(F))))
ReorderCardsFs ==
    \E F \in FailureSets, data \in ReorderCardsArgs :
        CompleteFs("reorderCards", F,
            mutationUnder(F, FsRead(F), reorderCardsWith(data, FsRead(F))))
UpdateColumnFs ==
    \E F \in FailureSets, data \in UpdateColumnArgs :
        CompleteFs("updateColumn", F,
            mutationUnder(F, FsRead(F), updateColumnWith(data, FsRead(F))))
ReorderColumnsFs ==
    \E F \in FailureSets, data \in ReorderColumnsArgs :
        CompleteFs("reorderColumns", F,
            mutationUnder(F, FsRead(F), reorderColumnsWith(data, FsRead(F))))
CreateColumnFs ==
    \E F \in FailureSets, data \in CreateColumnArgs :
        CompleteFs("createColumn", F,
            mutationUnder(F, FsRead(F), createColumnWith(data, FsRead(F))))
DeleteColumnFs ==
    \E F \in FailureSets, data \in DeleteColumnArgs :
        CompleteFs("deleteColumn", F,
            mutationUnder(F, FsRead(F), deleteColumnWith(data, FsRead(F))))

\* Mutant: readDirectory awaited outside its try/catch.
readStateRaisesOnListing(F, r, rec) ==
    \/ "createDirectory" \in F
    \/ "readDirectory" \in F
    \/ "writeFile" \in F /\ (r.wrote \/ rec.orderChanged)

\* readState throws when ensureStorage or one of its two writes of the index
\* (the self-heal, the repair) fails.
readStateRaises(F, r, rec) ==
    \/ "createDirectory" \in F
    \/ "writeFile" \in F /\ (r.wrote \/ rec.orderChanged)

\* A failed readDirectory leaves entries empty.
entriesUnder(F, listing) == IF "readDirectory" \in F THEN <<>> ELSE listing

\* loadCard returns null for a card whose readFile or stat fails.
loadCardsUnder(columns, order, unreadable) ==
    LET all == loadCards(columns, order)
    IN  [id \in (DOMAIN all) \ unreadable |-> all[id]]

\* readState under the failures F; the card files in unreadable fail to be
\* read one by one.
ReadStateBeginFs ==
    /\ pc = "idle"
    /\ \E F \in FailureSets, listing \in Listings(DOMAIN cardFiles),
          some \in SUBSET (DOMAIN cardFiles) :
          LET r == FsRead(F)
              entries == entriesUnder(F, listing)
              rec == reconcile(r.index, entries)
              unreadable == IF F \cap {"readFile", "stat"} # {}
                            THEN DOMAIN cardFiles ELSE some
          IN  IF readStateRaises(F, r, rec)
              THEN /\ last' = [op |-> "readState", result |-> FsError, fs |-> F]
                   /\ ret' = None
                   /\ run' = None
                   /\ pc' = "idle"
                   /\ UNCHANGED indexFile
              ELSE /\ indexFile' = persistRepair(r, rec)
                   /\ run' = [index |-> r.index, listing |-> entries,
                              order |-> rec.order, healed |-> r.wrote,
                              orderChanged |-> rec.orderChanged, ext |-> {},
                              fs |-> F, unreadable |-> unreadable]
                   /\ pc' = "loading"
                   /\ UNCHANGED <<ret, last>>
    /\ UNCHANGED <<cardFiles, DEFAULT_COLUMNS, nextId, ops, handlers, otherIndexFile>>

ReadStateLoadFs ==
    /\ pc = "loading"
    /\ ret' = [columns |-> run.index.columns, order |-> run.order,
               cards |-> loadCardsUnder(run.index.columns, run.order, run.unreadable)]
    /\ last' = [op |-> "readState", result |-> "ok", fs |-> run.fs]
    /\ pc' = "idle"
    /\ UNCHANGED <<indexFile, cardFiles, DEFAULT_COLUMNS, nextId, run, ops, handlers, otherIndexFile>>

NextFs ==
    \/ CreateCardFs \/ UpdateCardFs \/ DeleteCardFs \/ MoveCardFs \/ ReorderCardsFs
    \/ UpdateColumnFs \/ ReorderColumnsFs \/ CreateColumnFs \/ DeleteColumnFs
    \/ ReadStateBeginFs \/ ReadStateLoadFs

SpecFs == Init /\ [][NextFs]_vars

(* C12: readState does not raise on a read failure. With the index file    *)
(* missing or unreadable it builds the default index, persists it and      *)
(* goes on with it; with a failed directory listing it behaves as if there *)
(* were no card files; a card file that cannot be read is left out of      *)
(* cards while the readable ones are loaded.                               *)
C12_ReadFailuresRecovered ==
    /\ last.op = "readState" /\ last.result = FsError =>
          last.fs \cap {"createDirectory", "writeFile"} # {}
    /\ Returned =>
          /\ run.healed =>
                /\ ret.columns = DEFAULT_COLUMNS
                /\ indexFile.kind = "json"
                /\ indexFile.columns = ret.columns
          /\ "readDirectory" \in run.fs =>
                run.listing = <<>> /\ DOMAIN ret.cards = {}
          /\ DOMAIN ret.cards = OrderedIds(ret) \ run.unreadable

\* readState returned a board that leaves out a card file that could not be
\* read and holds one that could.
C12_Witness ==
    /\ Returned
    /\ run.unreadable # {}
    /\ DOMAIN ret.cards # {}
    /\ "readFile" \in run.fs => run.healed

(* C14: no operation throws a filesystem failure, whichever primitive      *)
(* fails: it completes or fails with a validation error.                   *)
C14_NoFailurePropagates ==
    last.result # FsError

(* C14, amended: a failure of readFile, readDirectory, stat or delete is   *)
(* never thrown (updateCard reports a failed read as "Card not found.");   *)
(* an operation throws a filesystem failure only when createDirectory or   *)
(* writeFile fails.                                                        *)
C14_OnlyWriteFailuresPropagate ==
    [][pc = "idle" /\ last' # last =>
         /\ last'.result = FsError =>
               last'.fs \cap {"createDirectory", "writeFile"} # {}
         /\ last'.op = "updateCard" /\ "readFile" \in last'.fs =>
               last'.result \in PreReadMessages \cup {"Card not found."}]_vars

\* A mutation went through although a caught primitive failed.
C14_Witness ==
    /\ last.op \in MutationOps
    /\ last.result = "ok"
    /\ last.fs \cap CaughtPrimitives # {}
    /\ cardFiles # <<>>

----------------------------------------------------------------------------
(* The webview message handler: each message starts an invocation of the   *)
(* async callback, which runs to its next await and yields                 *)

\* handleMessage's switch: the operation of a message type.
OperationOf(type) ==
    CASE type = "kanban:card:create" -> "createCard"
      [] type = "kanban:card:update" -> "updateCard"
      [] type = "kanban:card:delete" -> "deleteCard"
      [] type = "kanban:card:move" -> "moveCard"
      [] type = "kanban:card:reorder" -> "reorderCards"
      [] type = "kanban:column:update" -> "updateColumn"
      [] type = "kanban:column:reorder" -> "reorderColumns"
      [] type = "kanban:column:create" -> "createColumn"
      [] type = "kanban:column:delete" -> "deleteColumn"
      [] OTHER -> "readState"

Messages ==
    {[type |-> "kanban:init", data |-> NoData]}
    \cup {[type |-> "kanban:card:create", data |-> d] : d \in CreateCardArgs}
    \cup {[type |-> "kanban:card:update", data |-> d] : d \in UpdateCardArgs}
    \cup {[type |-> "kanban:card:delete", data |-> d] : d \in DeleteCardArgs}
    \cup {[type |-> "kanban:card:move", data |-> d] : d \in MoveCardArgs}
    \cup {[type |-> "kanban:card:reorder", data |-> d] : d \in ReorderCardsArgs}
    \cup {[type |-> "kanban:column:update", data |-> d] : d \in UpdateColumnArgs}
    \cup {[type |-> "kanban:column:reorder", data |-> d] : d \in ReorderColumnsArgs}
    \cup {[type |-> "kanban:column:create", data |-> d] : d \in CreateColumnArgs}
    \cup {[type |-> "kanban:column:delete", data |-> d] : d \in DeleteColumnArgs}

\* storage.<operation>(message.data ?? {}) on the index r the operation read.
mutationWith(op, data, r, cardId) ==
    CASE op = "createCard" -> createCardWith(data, r, cardId)
      [] op = "updateCard" -> updateCard(data)
      [] op = "deleteCard" -> deleteCardWith(data, r)
      [] op = "moveCard" -> moveCardWith(data, r)
      [] op = "reorderCards" -> reorderCardsWith(data, r)
      [] op = "updateColumn" -> updateColumnWith(data, r)
      [] op = "reorderColumns" -> reorderColumnsWith(data, r)
      [] op = "createColumn" -> createColumnWith(data, r)
      [] OTHER -> deleteColumnWith(data, r)

Handler(h) == handlers[h]
Goto(h, rec) ==
    /\ handlers' = [handlers EXCEPT ![h] = rec]
    /\ UNCHANGED otherIndexFile

\* panel.webview.postMessage
Post(h, type, data) ==
    Goto(h, [pc |-> "done", msg |-> Handler(h).msg, cardId |-> Handler(h).cardId,
             result |-> IF type = "kanban:error" THEN data ELSE Handler(h).result,
             posted |-> Append(Handler(h).posted, [type |-> type, data |-> data])])

\* The index a handler holds since its readIndex: its columns are the live
\* DEFAULT_COLUMNS array when normalizeIndex fell back to it.
held(r) ==
    [r EXCEPT !.index.columns = IF r.index.aliased THEN DEFAULT_COLUMNS ELSE @]

\* The webview sends a message; the callback is invoked for it at once,
\* whether or not an earlier invocation has finished.
Receive(h) ==
    /\ Handler(h).pc = "none"
    /\ h = "second" => Handler("first").pc # "none"
    /\ \E msg \in Messages :
          Goto(h, [pc |-> IF OperationOf(msg.type) = "readState" THEN "reading"
                          ELSE "received",
                   msg |-> msg, cardId |-> "", result |-> "none", posted |-> <<>>])
    /\ UNCHANGED <<indexFile, cardFiles, DEFAULT_COLUMNS, nextId, pc, run, ret, last, ops>>

\* The mutation validates its input and awaits readIndex (updateCard reads
\* no index); a throw is caught by the callback, which posts the error.
MutationRead(h) ==
    /\ Handler(h).pc = "received"
    /\ LET msg == Handler(h).msg
           op == OperationOf(msg.type)
           r == readIndex
           out == mutationWith(op, msg.data, r, generateId(nextId + 1))
       IN  IF out.result \in PreReadMessages
           THEN /\ Post(h, "kanban:error", out.result)
                /\ UNCHANGED indexFile
           ELSE IF op = "updateCard"
           THEN /\ Goto(h, [Handler(h) EXCEPT !.pc = "mutating"])
                /\ UNCHANGED indexFile
           ELSE /\ Goto(h, [pc |-> "mutating", msg |-> msg, cardId |-> "",
                            result |-> "none", posted |-> <<>>, r |-> r])
                /\ indexFile' = r.file
    /\ UNCHANGED <<cardFiles, DEFAULT_COLUMNS, nextId, pc, run, ret, last, ops>>

\* The handler going on to readState after a mutation that threw.
MutationWriteSwallowsError(h) ==
    /\ Handler(h).pc = "mutating"
    /\ LET msg == Handler(h).msg
           op == OperationOf(msg.type)
           r == IF op = "updateCard" THEN readIndex ELSE held(Handler(h).r)
           cardId == generateId(nextId + 1)
           out == mutationWith(op, msg.data, r, cardId)
       IN  IF out.result # "ok"
           THEN /\ Goto(h, [pc |-> "reading", msg |-> msg, cardId |-> "",
                            result |-> out.result, posted |-> <<>>])
                /\ UNCHANGED <<indexFile, cardFiles, DEFAULT_COLUMNS, nextId>>
           ELSE /\ Goto(h, [pc |-> "reading", msg |-> msg,
                            cardId |-> IF op = "createCard" THEN cardId ELSE "",
                            result |-> "ok", posted |-> <<>>])
                /\ indexFile' = out.file
                /\ cardFiles' = out.cards
                /\ DEFAULT_COLUMNS' = out.defaults
                /\ nextId' = out.gen
    /\ UNCHANGED <<pc, run, ret, last, ops>>

\* The mutation goes on with the index it read and awaits its writes.
MutationWrite(h) ==
    /\ Handler(h).pc = "mutating"
    /\ LET msg == Handler(h).msg
           op == OperationOf(msg.type)
           r == IF op = "updateCard" THEN readIndex ELSE held(Handler(h).r)
           cardId == generateId(nextId + 1)
           out == mutationWith(op, msg.data, r, cardId)
       IN  IF out.result # "ok"
           THEN /\ Post(h, "kanban:error", out.result)
                /\ UNCHANGED <<indexFile, cardFiles, DEFAULT_COLUMNS, nextId>>
           ELSE /\ Goto(h, [pc |-> "reading", msg |-> msg,
                            cardId |-> IF op = "createCard" THEN cardId ELSE "",
                            result |-> "ok", posted |-> <<>>])
                /\ indexFile' = out.file
                /\ cardFiles' = out.cards
                /\ DEFAULT_COLUMNS' = out.defaults
                /\ nextId' = out.gen
    /\ UNCHANGED <<pc, run, ret, last, ops>>

\* readState reads the index, lists the cards and persists its repair.
HandlerReadState(h) ==
    /\ Handler(h).pc = "reading"
    /\ \E listing \in Listings(DOMAIN cardFiles) :
          LET r == readIndex
              rec == reconcile(r.index, listing)
          IN  /\ indexFile' = persistRepair(r, rec)
              /\ Goto(h, [pc |-> "loading", msg |-> Handler(h).msg,
                          cardId |-> Handler(h).cardId,
                          result |-> Handler(h).result, posted |-> Handler(h).posted,
                          state |-> [columns |-> r.index.columns, order |-> rec.order]])
    /\ UNCHANGED <<cardFiles, DEFAULT_COLUMNS, nextId, pc, run, ret, last, ops>>

\* readState loads the cards and returns; the callback posts the state.
HandlerPostState(h) ==
    /\ Handler(h).pc = "loading"
    /\ LET state == Handler(h).state
       IN  Post(h, "kanban:state",
                [columns |-> state.columns, order |-> state.order,
                 cards |-> loadCards(state.columns, state.order)])
    /\ UNCHANGED <<indexFile, cardFiles, DEFAULT_COLUMNS, nextId, pc, run, ret, last, ops>>

NextMsg ==
    \E h \in Handlers :
        \/ Receive(h)
        \/ MutationRead(h)
        \/ MutationWrite(h)
        \/ HandlerReadState(h)
        \/ HandlerPostState(h)

SpecMsg == Init /\ [][NextMsg]_vars

\* The handler of h ran createCard and posted the state that followed.
Created(h) ==
    /\ Handler(h).pc = "done"
    /\ OperationOf(Handler(h).msg.type) = "createCard"
    /\ Handler(h).posted[1].type = "kanban:state"

\* The index file after the createCard of a and then the one of b, each run
\* to completion on the fresh board, with the ids the two were given.
SerialCreates(a, b) ==
    LET ra == readIndexFrom([kind |-> "missing"])
        oa == createCardWith(Handler(a).msg.data, ra, Handler(a).cardId)
        rb == readIndexFrom(oa.file)
        ob == createCardWith(Handler(b).msg.data, rb, Handler(b).cardId)
    IN  ob.file

(* C13: mutations are handled one at a time, the second one reading the    *)
(* index only after the first one's last write, so no update of the index  *)
(* is lost: when the webview sent two card creations back-to-back and both *)
(* were answered with a state, the persisted index is the one that running *)
(* the two creations one after the other, in some order, leaves.           *)
C13_NoIndexUpdateLost ==
    Created("first") /\ Created("second") =>
        indexFile \in {SerialCreates("first", "second"),
                       SerialCreates("second", "first")}

\* The id the next createCard is given.
NewId == generateId(nextId + 1)

\* createCard completes for data, with a title that is not blank.
Creates(data) ==
    /\ last'.op = "createCard"
    /\ trim(Field(data, "title", "")) # ""
    /\ Complete("createCard", data, createCard(data))

C16_CreateDefaultsToFirstColumn ==
    [][\A data \in CreateCardArgs :
          /\ "columnId" \notin DOMAIN data
             \/ data.columnId \notin ColumnIds(readIndex.index)
          /\ Creates(data)
          => LET first == readIndex.index.columns[1].id
             IN  indexFile'.order[first] = Append(readIndex.index.order[first], NewId)]_vars

----------------------------------------------------------------------------
(* generateId within one millisecond                                       *)

\* generateId is Date.now() in base 36 followed by four digits of
\* Math.random(): a createCard that follows another within the same
\* millisecond and draws the same digits is given the same token again.
CreateCardSameTick ==
    /\ last = [op |-> "createCard", result |-> "ok"]
    /\ \E data \in CreateCardArgs :
          Complete("createCard", data,
                   [createCardWith(data, readIndex, generateId(nextId))
                        EXCEPT !.gen = nextId])

NextIds == NextOps \/ CreateCardSameTick

SpecIds == Init /\ [][NextIds]_vars

(* C18: card ids are never reused: the id createCard generates is the id   *)
(* of no card file on the board, so createCard overwrites no existing card *)
(* file.                                                                   *)
C18_NewIdIsFresh ==
    [][pc = "idle" /\ ops' = ops + 1 /\ last' = [op |-> "createCard", result |-> "ok"]
          => generateId(nextId') \notin DOMAIN cardFiles]_vars

\* deleteCard completes for data, which names a card.
Deletes(data) ==
    /\ last'.op = "deleteCard"
    /\ Has(data, "cardId")
    /\ Complete("deleteCard", data, deleteCard(data))

\* The readState that returned ran right after a deleteCard that went
\* through, with no edit from outside in between or during it.
ReturnedAfterDelete ==
    /\ Returned
    /\ run.deleted # None
    /\ run.ext = {}

----------------------------------------------------------------------------
(* The text of a card file: front matter and body                          *)

\* A text is a sequence of characters: the line feed, the carriage return,
\* the colon, the space, and words, each standing for a run of characters
\* that holds none of those four.
LF == "<LF>"
CR == "<CR>"
COLON == ":"
SP == " "
Whitespace == {SP, LF, CR}
DELIMITER == <<"---">>

\* A metadata value that is null, and the result of reading an absent key.
NullValue == <<"<null>">>
Absent == <<"<absent>">>
IsStringValue(v) == v # NullValue /\ v # Absent

IsBlankText(text) == \A i \in DOMAIN text : text[i] \in Whitespace

\* String.prototype.trim
trimText(text) ==
    IF IsBlankText(text) THEN <<>>
    ELSE LET solid == {i \in DOMAIN text : text[i] \notin Whitespace}
             from == CHOOSE i \in solid : \A j \in solid : i <= j
             to == CHOOSE i \in solid : \A j \in solid : i >= j
         IN  SubSeq(text, from, to)

\* The position of the first x in seq after position start, 0 when none.
indexOf(seq, x, start) ==
    LET found == {i \in DOMAIN seq : i > start /\ seq[i] = x}
    IN  IF found = {} THEN 0 ELSE CHOOSE i \in found : \A j \in found : i <= j

\* text.split(/\r?\n/)
RECURSIVE splitLines(_)
splitLines(text) ==
    LET at == indexOf(text, LF, 0)
    IN  IF at = 0 THEN <<text>>
        ELSE LET head == SubSeq(text, 1, at - 1)
                 line == IF Len(head) > 0 /\ head[Len(head)] = CR
                         THEN SubSeq(head, 1, Len(head) - 1) ELSE head
             IN  <<line>> \o splitLines(SubSeq(text, at + 1, Len(text)))

\* lines.join("\n")
RECURSIVE joinLines(_)
joinLines(lines) ==
    IF Len(lines) = 0 THEN <<>>
    ELSE IF Len(lines) = 1 THEN lines[1]
    ELSE lines[1] \o <<LF>> \o joinLines(Tail(lines))

\* A metadata mapping is the sequence of its [key, value] entries in
\* insertion order, each key once.
metaGet(meta, key) ==
    IF \E i \in DOMAIN meta : meta[i].key = key
    THEN meta[CHOOSE i \in DOMAIN meta : meta[i].key = key].value
    ELSE Absent

metaSet(meta, key, value) ==
    IF \E i \in DOMAIN meta : meta[i].key = key
    THEN [i \in DOMAIN meta |->
            IF meta[i].key = key THEN [key |-> key, value |-> value] ELSE meta[i]]
    ELSE Append(meta, [key |-> key, value |-> value])

\* The loop of parseFrontMatter over the lines between the delimiters.
RECURSIVE parseMetaLines(_)
parseMetaLines(metaLines) ==
    IF Len(metaLines) = 0 THEN <<>>
    ELSE LET meta == parseMetaLines(SubSeq(metaLines, 1, Len(metaLines) - 1))
             line == metaLines[Len(metaLines)]
             separatorIndex == indexOf(line, COLON, 0)
             key == trimText(SubSeq(line, 1, separatorIndex - 1))
             value == trimText(SubSeq(line, separatorIndex + 1, Len(line)))
         IN  IF IsBlankText(line) \/ separatorIndex = 0 \/ key = <<>> THEN meta
             ELSE metaSet(meta, key,
                          IF value = <<>> \/ value = <<"null">> THEN NullValue
                          ELSE value)

\* parseFrontMatter giving back the lines joined again when it finds no
\* front matter.
parseFrontMatterRejoins(content) ==
    LET lines == splitLines(content)
        endIndex == indexOf(lines, DELIMITER, 1)
    IN  IF lines[1] # DELIMITER \/ endIndex = 0
        THEN [meta |-> <<>>, body |-> joinLines(lines)]
        ELSE [meta |-> parseMetaLines(SubSeq(lines, 2, endIndex - 1)),
              body |-> joinLines(SubSeq(lines, endIndex + 1, Len(lines)))]

parseFrontMatter(content) ==
    LET lines == splitLines(content)
        endIndex == indexOf(lines, DELIMITER, 1)
    IN  IF lines[1] # DELIMITER \/ endIndex = 0
        THEN [meta |-> <<>>, body |-> content]
        ELSE [meta |-> parseMetaLines(SubSeq(lines, 2, endIndex - 1)),
              body |-> joinLines(SubSeq(lines, endIndex + 1, Len(lines)))]

knownKeys == << <<"id">>, <<"title">>, <<"due">>, <<"createdAt">>, <<"updatedAt">> >>

\* serializeFrontMatter writing the keys in the order of the mapping.
serializeFrontMatterInMappingOrder(meta, body) ==
    LET line(entry) ==
            entry.key \o <<COLON, SP>>
                \o (IF entry.value = NullValue THEN <<"null">> ELSE entry.value)
        lines == [i \in DOMAIN meta |-> line(meta[i])]
    IN  joinLines(<<DELIMITER>> \o lines \o <<DELIMITER, body>>)

serializeFrontMatter(meta, body) ==
    LET line(key) ==
            LET value == metaGet(meta, key)
            IN  key \o <<COLON, SP>> \o (IF value = NullValue THEN <<"null">> ELSE value)
        known == SelectSeq(knownKeys, LAMBDA key : metaGet(meta, key) # Absent)
        others == SelectSeq(meta, LAMBDA entry : entry.key \notin Range(knownKeys))
        lines == [i \in DOMAIN known |-> line(known[i])]
                 \o [i \in DOMAIN others |-> line(others[i].key)]
    IN  joinLines(<<DELIMITER>> \o lines \o <<DELIMITER, body>>)

\* null when no line has anything but whitespace
firstNonEmptyLine(text) ==
    LET lines == splitLines(text)
        solid == {i \in DOMAIN lines : ~IsBlankText(lines[i])}
    IN  IF solid = {} THEN NullValue
        ELSE trimText(lines[CHOOSE i \in solid : \A j \in solid : i <= j])

----------------------------------------------------------------------------
(* Card files as text: createCard, updateCard and loadCard on the content  *)

MaxCardOps == 3

\* new Date(t).toISOString() of the t-th instant of the behaviour.
Instants == <<"T1", "T2", "T3", "T4", "T5">>
toISOString(t) == <<Instants[t]>>

Entry(key, value) == [key |-> <<key>>, value |-> value]

\* due && due.trim() ? due : null, due being null when data.due is no string
dueValue(due) == IF due = NullValue \/ IsBlankText(due) THEN NullValue ELSE due

\* The content createCard writes.
createCardContent(cardId, title, detail, due, now) ==
    serializeFrontMatter(
        <<Entry("id", <<cardId>>), Entry("title", trimText(title)),
          Entry("due", dueValue(due)), Entry("createdAt", toISOString(now)),
          Entry("updatedAt", toISOString(now))>>,
        detail)

\* The content updateCard writes over the content it read.
updateCardContent(content, cardId, title, detail, due, now) ==
    LET parsed == parseFrontMatter(content)
        m1 == metaSet(parsed.meta, <<"id">>, <<cardId>>)
        m2 == metaSet(m1, <<"title">>, trimText(title))
        m3 == metaSet(m2, <<"due">>, dueValue(due))
        createdAt == metaGet(m3, <<"createdAt">>)
        m4 == metaSet(m3, <<"createdAt">>,
                      IF IsStringValue(createdAt) /\ createdAt # <<>>
                      THEN createdAt ELSE toISOString(now))
        m5 == metaSet(m4, <<"updatedAt">>, toISOString(now))
    IN  serializeFrontMatter(m5, detail)

\* The CardData loadCard builds from a file and its stat.
\* loadCard trusting the id the front matter gives.
loadCardDataTrustsMeta(cardId, file) ==
    LET parsed == parseFrontMatter(file.text)
        meta == parsed.meta
        detail == parsed.body
        metaId == metaGet(meta, <<"id">>)
        metaTitle == metaGet(meta, <<"title">>)
        firstLine == firstNonEmptyLine(detail)
        title == IF IsStringValue(metaTitle) /\ ~IsBlankText(metaTitle) THEN metaTitle
                 ELSE IF firstLine # NullValue THEN firstLine
                 ELSE <<"Untitled">>
        metaCreated == metaGet(meta, <<"createdAt">>)
        metaUpdated == metaGet(meta, <<"updatedAt">>)
        metaDue == metaGet(meta, <<"due">>)
    IN  [id |-> IF IsStringValue(metaId) THEN metaId[1] ELSE cardId,
         title |-> title, detail |-> detail,
         due |-> IF IsStringValue(metaDue) THEN metaDue ELSE NullValue,
         createdAt |-> IF IsStringValue(metaCreated) /\ metaCreated # <<>>
                       THEN metaCreated ELSE toISOString(file.ctime),
         updatedAt |-> IF IsStringValue(metaUpdated) /\ metaUpdated # <<>>
                       THEN metaUpdated ELSE toISOString(file.mtime)]

loadCardData(cardId, file) ==
    LET parsed == parseFrontMatter(file.text)
        meta == parsed.meta
        detail == parsed.body
        metaTitle == metaGet(meta, <<"title">>)
        firstLine == firstNonEmptyLine(detail)
        title == IF IsStringValue(metaTitle) /\ ~IsBlankText(metaTitle) THEN metaTitle
                 ELSE IF firstLine # NullValue THEN firstLine
                 ELSE <<"Untitled">>
        metaCreated == metaGet(meta, <<"createdAt">>)
        metaUpdated == metaGet(meta, <<"updatedAt">>)
        metaDue == metaGet(meta, <<"due">>)
    IN  [id |-> cardId, title |-> title, detail |-> detail,
         due |-> IF IsStringValue(metaDue) THEN metaDue ELSE NullValue,
         createdAt |-> IF IsStringValue(metaCreated) /\ metaCreated # <<>>
                       THEN metaCreated ELSE toISOString(file.ctime),
         updatedAt |-> IF IsStringValue(metaUpdated) /\ metaUpdated # <<>>
                       THEN metaUpdated ELSE toISOString(file.mtime)]

\* The title, detail and due passed to createCard and updateCard.
CardWrites ==
    {[title |-> <<SP, "First", SP>>, detail |-> <<"Hello">>, due |-> NullValue],
     [title |-> <<"Updated">>, detail |-> <<"Next", LF, LF, "k", COLON, SP, "v">>,
      due |-> <<"soon">>],
     [title |-> <<"null">>, detail |-> <<"Hello">>, due |-> NullValue],
     [title |-> <<"two", LF, "lines">>, detail |-> <<>>, due |-> <<SP>>],
     [title |-> <<"First">>, detail |-> <<"x", CR, LF, "y">>, due |-> NullValue],
     [title |-> <<SP>>, detail |-> <<"Hello">>, due |-> NullValue]}

\* Card files written by hand: no front matter; front matter without
\* createdAt; front matter with createdAt and a key of its own.
HandTexts ==
    {<<"Note">>,
     <<"---", LF, "title", COLON, SP, "Hand", LF, "---", LF, "Body">>,
     <<"---", LF, "createdAt", COLON, SP, "T0", LF, "tag", COLON, "x", LF, "---", LF,
       LF, SP, "Body">>}

WriteFile(id, text, now) ==
    [c \in (DOMAIN cardFiles) \cup {id} |->
        IF c # id THEN cardFiles[c]
        ELSE [text |-> text,
              ctime |-> IF id \in DOMAIN cardFiles THEN cardFiles[id].ctime ELSE now,
              mtime |-> now]]

\* createCard: the index is handled as for any title that is not blank.
CreateCardText ==
    /\ pc = "idle"
    /\ ops < MaxCardOps
    /\ \E w \in CardWrites :
          LET id == generateId(nextId + 1)
              now == ops + 1
              out == IF IsBlankText(w.title) THEN Rejected("Title is empty.")
                     ELSE createCardWith([title |-> "Updated"], readIndex, id)
          IN  /\ indexFile' = out.file
              /\ nextId' = out.gen
              /\ cardFiles' = IF out.result = "ok"
                              THEN WriteFile(id, createCardContent(id, w.title, w.detail,
                                                                   w.due, now), now)
                              ELSE cardFiles
              /\ last' = [op |-> "createCard", result |-> out.result, cardId |-> id,
                          title |-> w.title, detail |-> w.detail, at |-> now]
    /\ ops' = ops + 1
    /\ ret' = None
    /\ UNCHANGED <<DEFAULT_COLUMNS, pc, run, handlers, otherIndexFile>>

UpdateCardText ==
    /\ pc = "idle"
    /\ ops < MaxCardOps
    /\ \E cardId \in CardIds, w \in CardWrites :
          LET now == ops + 1
              result == IF IsBlankText(w.title) THEN "Title is empty."
                        ELSE IF cardId \notin DOMAIN cardFiles THEN "Card not found."
                        ELSE "ok"
          IN  /\ cardFiles' =
                    IF result = "ok"
                    THEN WriteFile(cardId,
                                   updateCardContent(cardFiles[cardId].text, cardId,
                                                     w.title, w.detail, w.due, now), now)
                    ELSE cardFiles
              /\ last' = IF result = "ok"
                         THEN [op |-> "updateCard", result |-> result, cardId |-> cardId,
                               title |-> w.title, detail |-> w.detail, at |-> now,
                               before |-> loadCardData(cardId, cardFiles[cardId])]
                         ELSE [op |-> "updateCard", result |-> result]
    /\ ops' = ops + 1
    /\ ret' = None
    /\ UNCHANGED <<indexFile, DEFAULT_COLUMNS, nextId, pc, run, handlers, otherIndexFile>>

\* A card file is put into the cards directory by hand.
HandAuthorCard ==
    /\ pc = "idle"
    /\ ops < MaxCardOps
    /\ \E id \in ExtIds, text \in HandTexts :
          /\ id \notin DOMAIN cardFiles
          /\ cardFiles' = WriteFile(id, text, ops + 1)
    /\ last' = [op |-> "external", result |-> "ok"]
    /\ ops' = ops + 1
    /\ ret' = None
    /\ UNCHANGED <<indexFile, DEFAULT_COLUMNS, nextId, pc, run, handlers, otherIndexFile>>

\* readState, from readIndex to the cards it returns.
ReadStateText ==
    /\ pc = "idle"
    /\ \E listing \in Listings(DOMAIN cardFiles) :
          LET r == readIndex
              rec == reconcile(r.index, listing)
              ids == UNION {Range(rec.order[k]) : k \in DOMAIN rec.order}
          IN  /\ indexFile' = persistRepair(r, rec)
              /\ ret' = [columns |-> r.index.columns, order |-> rec.order,
                         cards |-> [id \in ids \cap DOMAIN cardFiles |->
                                       loadCardData(id, cardFiles[id])]]
    /\ UNCHANGED <<cardFiles, DEFAULT_COLUMNS, nextId, pc, run, last, ops, handlers, otherIndexFile>>

NextCard == CreateCardText \/ UpdateCardText \/ HandAuthorCard \/ ReadStateText

SpecCard == Init /\ [][NextCard]_vars

\* readState returned after a createCard or updateCard that went through,
\* with nothing done in between.
ReturnedAfterWrite ==
    /\ ret # None
    /\ last.op \in {"createCard", "updateCard"}
    /\ last.result = "ok"

(* C17: the title and the detail readState reports for a card are the      *)
(* trimmed title and the detail given to the createCard or updateCard that *)
(* wrote the card last, whatever the title (not blank) and the detail.     *)
C17_TitleAndDetailRoundTrip ==
    ReturnedAfterWrite =>
        /\ last.cardId \in DOMAIN ret.cards
        /\ ret.cards[last.cardId].title = trimText(last.title)
        /\ ret.cards[last.cardId].detail = last.detail

(* C19: an updateCard that goes through leaves the createdAt readState     *)
(* reports for the card as it was reported before, also for a file written *)
(* by hand without createdAt, and sets updatedAt to the time of the        *)
(* update.                                                                 *)
C19_UpdateKeepsCreatedAt ==
    ReturnedAfterWrite /\ last.op = "updateCard" =>
        /\ ret.cards[last.cardId].createdAt = last.before.createdAt
        /\ ret.cards[last.cardId].updatedAt = toISOString(last.at)

----------------------------------------------------------------------------
(* Claims C21..C30                                                         *)

\* moveCard completes for data, which names a card of its source list.
Moves(data) ==
    /\ last'.op = "moveCard"
    /\ Has(data, "cardId") /\ Has(data, "fromColumnId")
    /\ Has(data, "toColumnId") /\ "toIndex" \in DOMAIN data
    /\ data.cardId \in Range(Get(readIndex.index.order, data.fromColumnId))
    /\ Complete("moveCard", data, moveCard(data))

\* list is base with cardId put in front of the element at offset pos.
InsertedAt(list, base, pos, cardId) ==
    /\ Len(list) = Len(base) + 1
    /\ list[pos + 1] = cardId
    /\ \A i \in 1..pos : list[i] = base[i]
    /\ \A i \in (pos + 1)..Len(base) : list[i + 1] = base[i]

(* C21: moveCard of a card that is in the source list leaves the source    *)
(* list without that card and the destination list, taken after the        *)
(* removal, with the card at position max(0, min(toIndex, length)); the    *)
(* other ids keep their relative order, and the columns and the lists of   *)
(* the other columns are as they were read.                                *)
C21_MoveRemovesThenInserts ==
    [][\A data \in MoveCardArgs :
          Moves(data) =>
            LET before == readIndex.index.order
                after == indexFile'.order
                from == data.fromColumnId
                to == data.toColumnId
                without == SelectSeq(before[from], LAMBDA id : id # data.cardId)
                base == IF to = from THEN without ELSE Get(before, to)
                pos == IF data.toIndex < 0 THEN 0
                       ELSE IF data.toIndex > Len(base) THEN Len(base)
                       ELSE data.toIndex
            IN  /\ last'.result = "ok"
                /\ indexFile'.columns = readIndex.index.columns
                /\ DOMAIN after = (DOMAIN before) \cup {to}
                /\ from # to => after[from] = without
                /\ InsertedAt(after[to], base, pos, data.cardId)
                /\ \A k \in (DOMAIN before) \ {from, to} : after[k] = before[k]
                /\ cardFiles' = cardFiles]_vars

\* A card was moved within its column, behind the other card of that
\* column.
C21_Witness ==
    /\ last.op = "moveCard" /\ last.result = "ok"
    /\ last.listed /\ last.from = last.to
    /\ indexFile.kind = "json"
    /\ Len(indexFile.order[last.to]) = 2
    /\ indexFile.order[last.to][1] # indexFile.order[last.to][2]

\* reorderCards completes for data, which names a column and a list.
Reorders(data) ==
    /\ last'.op = "reorderCards"
    /\ Has(data, "columnId") /\ "orderedIds" \in DOMAIN data
    /\ Complete("reorderCards", data, reorderCards(data))

\* reorderCards left every column but the named one, and the card files, as
\* they were read.
ReorderFrame(data) ==
    /\ last'.result = "ok"
    /\ indexFile'.columns = readIndex.index.columns
    /\ DOMAIN indexFile'.order = (DOMAIN readIndex.index.order) \cup {data.columnId}
    /\ \A k \in (DOMAIN readIndex.index.order) \ {data.columnId} :
          indexFile'.order[k] = readIndex.index.order[k]
    /\ cardFiles' = cardFiles

(* C22 as stated: reorderCards persists orderedIds verbatim as the order   *)
(* list of the named column and leaves the other lists and the columns     *)
(* unchanged.                                                              *)
C22_ReorderPersistsVerbatim ==
    [][\A data \in ReorderCardsArgs :
          Reorders(data) =>
            /\ indexFile'.order[data.columnId] = data.orderedIds
            /\ ReorderFrame(data)]_vars

(* C22 amended: reorderCards persists the string entries of orderedIds, in *)
(* their order and with their repetitions, as the order list of the named  *)
(* column, whether or not they have card files or were in the list before, *)
(* and leaves the other lists and the columns unchanged; the readState     *)
(* that follows takes the ids without a card file out of the lists.        *)
C22_ReorderPersistsStringEntries ==
    [][/\ \A data \in ReorderCardsArgs :
            Reorders(data) =>
              /\ indexFile'.order[data.columnId] = SelectSeq(data.orderedIds, IsString)
              /\ ReorderFrame(data)
       /\ last.op = "reorderCards" /\ pc = "idle" /\ pc' = "loading" =>
              \A k \in DOMAIN run'.order :
                  Range(run'.order[k]) \subseteq DOMAIN cardFiles]_vars

\* reorderCards has written a list of two ids, one of them without a card
\* file, into its column.
C22_Witness ==
    /\ last.op = "reorderCards" /\ last.result = "ok"
    /\ indexFile.kind = "json"
    /\ Len(indexFile.order[last.columnId]) = 2
    /\ \E id \in Range(indexFile.order[last.columnId]) : id \notin DOMAIN cardFiles
    /\ \E id \in Range(indexFile.order[last.columnId]) : id \in DOMAIN cardFiles

\* The least position at which x stands in seq.
FirstAt(seq, x) == CHOOSE i \in DOMAIN seq : seq[i] = x /\ \A j \in 1..(i - 1) : seq[j] # x

\* next holds the elements of prev, each as often as prev does.
IsPermutation(next, prev) ==
    /\ Len(next) = Len(prev)
    /\ \A c \in Range(prev) \cup Range(next) :
          Cardinality({i \in DOMAIN next : next[i] = c})
              = Cardinality({i \in DOMAIN prev : prev[i] = c})

(* C23: reorderColumns loses and adds no column: whatever orderedIds holds *)
(* (unknown, repeated, missing ids), the columns written are a permutation *)
(* of the columns read: the columns orderedIds names, in the order of      *)
(* their first mention, then the others in their former relative order;    *)
(* the order map and the card files are as they were read.                 *)
C23_ReorderColumnsPermutes ==
    [][\A data \in ReorderColumnsArgs :
          /\ last'.op = "reorderColumns"
          /\ "orderedIds" \in DOMAIN data
          /\ Complete("reorderColumns", data, reorderColumns(data))
          => LET prev == readIndex.index.columns
                 next == indexFile'.columns
                 named == {i \in DOMAIN next : next[i].id \in Range(data.orderedIds)}
             IN  /\ last'.result = "ok"
                 /\ IsPermutation(next, prev)
                 /\ named = 1..Cardinality(named)
                 /\ \A i, j \in named :
                       i < j => FirstAt(data.orderedIds, next[i].id)
                                  < FirstAt(data.orderedIds, next[j].id)
                 /\ \A i, j \in (DOMAIN next) \ named :
                       i < j => FirstAt(prev, next[i]) < FirstAt(prev, next[j])
                 /\ indexFile'.order = readIndex.index.order
                 /\ cardFiles' = cardFiles]_vars

\* reorderColumns has put done in front of todo and the column it was not
\* given, doing, behind them.
C23_Witness ==
    /\ last.op = "reorderColumns" /\ last.result = "ok"
    /\ indexFile.kind = "json"
    /\ [i \in DOMAIN indexFile.columns |-> indexFile.columns[i].id]
          = <<"done", "todo", "doing">>

\* No two columns of the index, as readIndex returns it, have the same id.
DistinctColumnIds(file) ==
    LET columns == readIndexFrom(file).index.columns
    IN  \A i, j \in DOMAIN columns : columns[i].id = columns[j].id => i = j

(* C24: column ids stay pairwise distinct: createColumn appends one column *)
(* at the end of the columns array, with an id that no column read has and *)
(* with an empty order list, and leaves the columns and order lists read   *)
(* as they were; and no mutation of an index with distinct column ids      *)
(* writes an index in which two columns share an id.                       *)
C24_ColumnIdsStayDistinct ==
    [][/\ \A data \in CreateColumnArgs :
            /\ last'.op = "createColumn"
            /\ trim(Field(data, "title", "")) # ""
            /\ Complete("createColumn", data, createColumn(data))
            => LET prev == readIndex.index
                   next == indexFile'.columns
                   new == next[Len(next)]
               IN  /\ last'.result = "ok"
                   /\ Len(next) = Len(prev.columns) + 1
                   /\ SubSeq(next, 1, Len(prev.columns)) = prev.columns
                   /\ new.id \notin ColumnIds(prev)
                   /\ DOMAIN indexFile'.order = (DOMAIN prev.order) \cup {new.id}
                   /\ indexFile'.order[new.id] = <<>>
                   /\ \A k \in DOMAIN prev.order : indexFile'.order[k] = prev.order[k]
                   /\ cardFiles' = cardFiles
       /\ last'.op \in MutationOps /\ ops' = ops + 1 /\ DistinctColumnIds(indexFile)
            => DistinctColumnIds(indexFile')]_vars

\* createColumn has appended a second column named Todo, given the id
\* todo-1, to a board whose column todo holds a card.
C24_Witness ==
    /\ last.op = "createColumn" /\ last.result = "ok"
    /\ indexFile.kind = "json"
    /\ indexFile.columns[Len(indexFile.columns)] = [id |-> "todo-1", title |-> "Todo"]
    /\ indexFile.order["todo-1"] = <<>>
    /\ "todo" \in DOMAIN indexFile.order /\ Len(indexFile.order["todo"]) > 0

----------------------------------------------------------------------------
(* The pure functions, applied to inputs of their own                      *)

MaxColumns == 3     \* columns in a list given to ensureUniqueColumnId

\* All sequences over a set of at most n elements.
RECURSIVE SeqsUpTo(_, _)
SeqsUpTo(S, n) ==
    IF n = 0 THEN {<<>>}
    ELSE LET shorter == SeqsUpTo(S, n - 1)
         IN  shorter \cup {Append(q, x) : q \in shorter, x \in S}

PoolIds == {"todo", "todo-1", "todo-2", "doing"}

EnsureUniqueColumnIdInputs ==
    {[fn |-> "ensureUniqueColumnId",
      columns |-> [i \in DOMAIN ids |-> [id |-> ids[i], title |-> "T"]],
      baseId |-> b] :
        ids \in SeqsUpTo(PoolIds, MaxColumns), b \in {"todo", "column"}}

MaxRawColumns == 2  \* entries of the columns array given to normalizeIndex

\* JSON values as normalizeIndex meets them: a value that is an array and
\* one that is not, null, undefined, and a number.
Array(items) == [array |-> TRUE, items |-> items]
NotArray == [array |-> FALSE]
JsonNull == [kind |-> "null"]
JsonUndefined == [kind |-> "undefined"]
JsonNumber == [kind |-> "number"]

\* Entries of raw.columns: columns, objects whose id or title is no string,
\* and null.
ColumnEntries ==
    { [id |-> "todo", title |-> "Mine"], [id |-> "extra", title |-> "Extra"],
      [id |-> NonString, title |-> "Bad"], [id |-> "doing", title |-> NonString],
      JsonNull }

RawColumnsValues ==
    {NotArray} \cup {Array(q) : q \in SeqsUpTo(ColumnEntries, MaxRawColumns)}

RawListValues == {NotArray, Array(<<>>), Array(<<"a", NonString, "b", "a">>)}

\* raw.order: an object with some of the keys todo and extra.
RawOrderObjects ==
    UNION {[K -> RawListValues] : K \in SUBSET {"todo", "extra"}}

RawObjects ==
    {[kind |-> "object", order |-> o] : o \in RawOrderObjects \cup {JsonNull, JsonNumber}}
      \cup {[kind |-> "object", columns |-> c] : c \in RawColumnsValues}
      \cup {[kind |-> "object", columns |-> c, order |-> o] :
                c \in RawColumnsValues, o \in RawOrderObjects}
      \cup {[kind |-> "object"]}

NormalizeIndexInputs ==
    {[fn |-> "normalizeIndex", raw |-> v] :
        v \in RawObjects \cup {JsonNull, JsonUndefined, JsonNumber}}

MaxMetaEntries == 2 \* entries of a metadata mapping given to serializeFrontMatter
MaxTextLen == 4     \* characters of a text given to parseFrontMatter

\* Metadata values: strings (among them the empty one, the word null, one
\* with a space in front and one with a colon) and null.
MetaValues ==
    {<<"A">>, <<>>, <<"null">>, <<SP, "A">>, <<"a", COLON, "b">>, NullValue}

MetaKeys == {<<"title">>, <<"due">>, <<"note">>}

\* The mappings of at most n entries, as sequences of entries in insertion
\* order.
RECURSIVE MetaMappings(_)
MetaMappings(n) ==
    IF n = 0 THEN {<<>>}
    ELSE LET shorter == MetaMappings(n - 1)
         IN  shorter \cup
             {Append(m, [key |-> k, value |-> v]) :
                 m \in {q \in shorter : Len(q) = n - 1},
                 k \in MetaKeys, v \in MetaValues}

DistinctKeys(m) == \A i, j \in DOMAIN m : m[i].key = m[j].key => i = j

Bodies ==
    {<<>>, <<"a", COLON, SP, "b">>, <<"a", LF, LF, "b">>, <<"a", CR, LF, "b">>,
     <<"---", LF, "a">>}

RoundTripInputs ==
    {[fn |-> "roundTrip", meta |-> m, body |-> b] :
        m \in {q \in MetaMappings(MaxMetaEntries) : DistinctKeys(q)}, b \in Bodies}

TextCharacters == {"---", LF, CR, COLON, "a"}

ParseFrontMatterInputs ==
    {[fn |-> "parseFrontMatter", content |-> t] :
        t \in SeqsUpTo(TextCharacters, MaxTextLen)}

SerializeFrontMatterInputs ==
    {[fn |-> "serializeFrontMatter", meta |-> m, body |-> b] :
        m \in {q \in MetaMappings(MaxMetaEntries) : DistinctKeys(q)},
        b \in {<<>>, <<"a", LF, LF, "b">>}}

\* Front matters of card files: none, a title, and an id that is not the
\* name of the file followed by a title.
CardMetas ==
    {<<>>} \cup
    UNION {{<<[key |-> <<"title">>, value |-> v]>>,
            <<[key |-> <<"id">>, value |-> <<"other">>],
              [key |-> <<"title">>, value |-> v]>>} :
              v \in {<<"A">>, <<"A", SP, "B">>, NullValue, <<>>}}

CardBodies ==
    {<<>>, <<"x">>, <<LF, CR, LF, SP>>, <<SP, LF, SP, "x", COLON, SP, LF, "y">>}

\* Card files: with a front matter, and without one.
CardTexts ==
    {serializeFrontMatter(m, b) : m \in CardMetas, b \in CardBodies} \cup CardBodies

LoadCardInputs ==
    {[fn |-> "loadCard", cardId |-> "c1", text |-> t] : t \in CardTexts}

PureInputs ==
    EnsureUniqueColumnIdInputs \cup NormalizeIndexInputs
        \cup RoundTripInputs \cup ParseFrontMatterInputs
        \cup SerializeFrontMatterInputs \cup LoadCardInputs

\* One call of one function: run holds the arguments, ret the value
\* returned.
InitPure ==
    /\ handlers = [h \in Handlers |-> [pc |-> "none"]]
    /\ otherIndexFile = [kind |-> "missing"]
    /\ indexFile = [kind |-> "missing"]
    /\ cardFiles = [id \in {} |-> CardContent("")]
    /\ DEFAULT_COLUMNS = InitialDefaults
    /\ nextId = 0
    /\ pc = "idle"
    /\ run \in PureInputs
    /\ ret = None
    /\ last = [op |-> "init", result |-> "ok"]
    /\ ops = 0

\* How a call ends: with a value, or with an exception.
Value(v) == [threw |-> FALSE, value |-> v]
Thrown(e) == [threw |-> TRUE, error |-> e]

Apply(fn, out) ==
    /\ pc = "idle"
    /\ run.fn = fn
    /\ ret' = out
    /\ pc' = "returned"
    /\ last' = [op |-> fn, result |-> "ok"]
    /\ UNCHANGED <<indexFile, cardFiles, DEFAULT_COLUMNS, nextId, run, ops, handlers, otherIndexFile>>

ApplyEnsureUniqueColumnId ==
    Apply("ensureUniqueColumnId", Value(ensureUniqueColumnId(run.columns, run.baseId)))

\* typeof column.id and typeof column.title of an entry of raw.columns: null
\* is falsy, and a property an object lacks is undefined.
columnOf(entry) ==
    [id |-> Field(entry, "id", NonString), title |-> Field(entry, "title", NonString)]

\* What normalizeIndex reads of a value that has properties: raw.columns
\* when it is an array, and the entries of raw.order that are arrays.
rawOf(value) ==
    LET given == "columns" \in DOMAIN value /\ value.columns.array
        rawOrder == IF "order" \in DOMAIN value /\ "kind" \notin DOMAIN value.order
                    THEN value.order ELSE EmptyOrder
        lists == {k \in DOMAIN rawOrder : rawOrder[k].array}
    IN  [columns |-> IF given
                     THEN [i \in DOMAIN value.columns.items |->
                              columnOf(value.columns.items[i])]
                     ELSE <<>>,
         order |-> [k \in lists |-> rawOrder[k].items]]

\* normalizeIndex on any value: raw.columns of null and of undefined is a
\* TypeError.
normalizeIndexOn(value) ==
    IF value \in {JsonNull, JsonUndefined}
    THEN Thrown("TypeError")
    ELSE LET index == normalizeIndex(rawOf(value))
         IN  Value([columns |-> index.columns, order |-> index.order])

ApplyNormalizeIndex == Apply("normalizeIndex", normalizeIndexOn(run.raw))

\* parseFrontMatter(serializeFrontMatter(meta, body))
ApplyRoundTrip ==
    Apply("roundTrip", Value(parseFrontMatter(serializeFrontMatter(run.meta, run.body))))

ApplyParseFrontMatter == Apply("parseFrontMatter", Value(parseFrontMatter(run.content)))

ApplySerializeFrontMatter ==
    Apply("serializeFrontMatter", Value(serializeFrontMatter(run.meta, run.body)))

\* loadCard of a file that can be read.
ApplyLoadCard ==
    Apply("loadCard",
          Value(loadCardData(run.cardId, [text |-> run.text, ctime |-> 1, mtime |-> 1])))

NextPure ==
    \/ ApplyLoadCard
    \/ ApplyEnsureUniqueColumnId
    \/ ApplyNormalizeIndex
    \/ ApplyRoundTrip
    \/ ApplyParseFrontMatter
    \/ ApplySerializeFrontMatter

SpecPure == InitPure /\ [][NextPure]_vars

\* fn has returned.
Applied(fn) == pc = "returned" /\ run.fn = fn

(* C25: ensureUniqueColumnId(columns, baseId) returns baseId when no       *)
(* column has that id, and otherwise baseId-k for the least k >= 1 such    *)
(* that no column has the id baseId-k; it returns for every column list.   *)
C25_LeastFreeSuffix ==
    Applied("ensureUniqueColumnId") =>
        LET existing == {run.columns[i].id : i \in DOMAIN run.columns}
        IN  IF run.baseId \notin existing
            THEN ret.value = run.baseId
            ELSE \E k \in 1..(Len(run.columns) + 1) :
                    /\ ret.value = Suffixed(run.baseId, k)
                    /\ ret.value \notin existing
                    /\ \A j \in 1..(k - 1) : Suffixed(run.baseId, j) \in existing

\* The call of the repository's test, with a further column: todo and
\* todo-1 are taken, and todo-2 is returned.
C25_Witness ==
    /\ Applied("ensureUniqueColumnId")
    /\ run.baseId = "todo"
    /\ {run.columns[i].id : i \in DOMAIN run.columns} = {"todo", "todo-1", "doing"}
    /\ ret.value = "todo-2"

(* C26: deleteColumn of a column of a board with two columns or more takes *)
(* that column out of the columns array and its entry out of the order     *)
(* map, and deletes the card files of the ids in its list and no other;    *)
(* the other columns keep their order and their lists.                     *)
C26_DeleteColumnRemovesItsCards ==
    [][\A data \in DeleteColumnArgs :
          /\ last'.op = "deleteColumn"
          /\ Has(data, "columnId")
          /\ data.columnId \in ColumnIds(readIndex.index)
          /\ Len(readIndex.index.columns) >= 2
          /\ Complete("deleteColumn", data, deleteColumn(data))
          => LET prev == readIndex.index
                 listed == Range(prev.order[data.columnId])
             IN  /\ last'.result = "ok"
                 /\ indexFile'.columns =
                        SelectSeq(prev.columns, LAMBDA c : c.id # data.columnId)
                 /\ DOMAIN indexFile'.order = (DOMAIN prev.order) \ {data.columnId}
                 /\ \A k \in DOMAIN indexFile'.order : indexFile'.order[k] = prev.order[k]
                 /\ DOMAIN cardFiles' = (DOMAIN cardFiles) \ listed
                 /\ \A id \in DOMAIN cardFiles' : cardFiles'[id] = cardFiles[id]]_vars

\* deleteColumn has deleted the file of a card of its column and left the
\* file of a card of another column.
C26_Witness ==
    /\ last.op = "deleteColumn" /\ last.result = "ok"
    /\ last.removed # {}
    /\ indexFile.kind = "json"
    /\ \E k \in DOMAIN indexFile.order :
          \E id \in Range(indexFile.order[k]) : id \in DOMAIN cardFiles

(* C27: normalizeIndex is total: given any value (an object whose columns  *)
(* and order are absent, empty or malformed, or null or another value that *)
(* is no object) it returns, and the order map it returns has the ids of   *)
(* the columns it returns, and no other, as its keys.                      *)
C27_NormalizeIndexIsTotal ==
    Applied("normalizeIndex") =>
        /\ ~ret.threw
        /\ DOMAIN ret.value.order = ColumnIds(ret.value)

\* The entries of raw.columns that have a string id and a string title.
WellFormed(value) ==
    SelectSeq(rawOf(value).columns, LAMBDA c : IsString(c.id) /\ IsString(c.title))

\* The order map of index has the ids of columns as keys, each with the
\* string entries of raw.order under that id.
ListsFromRaw(index, columns, value) ==
    /\ DOMAIN index.order = {columns[i].id : i \in DOMAIN columns}
    /\ \A k \in DOMAIN index.order :
          index.order[k] = SelectSeq(Get(rawOf(value).order, k), IsString)

(* C28 as stated: the columns normalizeIndex returns are the entries of    *)
(* raw.columns that have a string id and a string title, in their order,   *)
(* each with the string entries of raw.order under its id; nothing of      *)
(* raw.order is kept for another id.                                       *)
C28_KeepsExactlyWellFormed ==
    Applied("normalizeIndex") /\ ~ret.threw =>
        /\ ret.value.columns = WellFormed(run.raw)
        /\ ListsFromRaw(ret.value, WellFormed(run.raw), run.raw)

(* C28 amended: when raw.columns has an entry with a string id and a       *)
(* string title, the columns returned are those entries in their order;    *)
(* when it has none, they are the three default columns; either way each   *)
(* column returned has the string entries of raw.order under its id, in    *)
(* their order, and nothing of raw.order is kept for another id.           *)
C28_KeepsWellFormedOrDefaults ==
    Applied("normalizeIndex") /\ ~ret.threw =>
        LET columns == IF WellFormed(run.raw) # <<>>
                       THEN WellFormed(run.raw) ELSE InitialDefaults
        IN  /\ ret.value.columns = columns
            /\ ListsFromRaw(ret.value, columns, run.raw)

\* Of two entries the one without a string id was dropped and todo kept,
\* with the strings of its list; the list given for extra was dropped.
C28_Witness ==
    /\ Applied("normalizeIndex")
    /\ run.raw.kind = "object"
    /\ "columns" \in DOMAIN run.raw /\ "order" \in DOMAIN run.raw
    /\ run.raw.columns = Array(<<[id |-> NonString, title |-> "Bad"],
                                 [id |-> "todo", title |-> "Mine"]>>)
    /\ DOMAIN run.raw.order = {"todo", "extra"}
    /\ ~ret.threw
    /\ ret.value.columns = <<[id |-> "todo", title |-> "Mine"]>>
    /\ ret.value.order = [k \in {"todo"} |-> <<"a", "b", "a">>]

\* Two mappings have the same keys with the same values.
SameMapping(m, n) ==
    /\ {m[i].key : i \in DOMAIN m} = {n[i].key : i \in DOMAIN n}
    /\ \A i \in DOMAIN m : metaGet(n, m[i].key) = m[i].value

(* C29: parseFrontMatter(serializeFrontMatter(m, b)) returns the metadata  *)
(* m and the body b, for every mapping m of strings and nulls and every    *)
(* body b, with colons, blank lines and line breaks.                       *)
C29_ParseInvertsSerialize ==
    Applied("roundTrip") =>
        /\ SameMapping(run.meta, ret.value.meta)
        /\ ret.value.body = run.body

\* The characters of text from position i on are exactly --- up to the end
\* of that line: the end of the text, a line feed, or a carriage return
\* and a line feed.
DelimiterLineAt(text, i) ==
    /\ i \in DOMAIN text /\ text[i] = "---"
    /\ \/ i = Len(text)
       \/ text[i + 1] = LF
       \/ i + 2 <= Len(text) /\ text[i + 1] = CR /\ text[i + 2] = LF

\* The first line of text is exactly ---, and so is a later line.
HasFrontMatter(text) ==
    /\ DelimiterLineAt(text, 1)
    /\ \E i \in 3..Len(text) : text[i - 1] = LF /\ DelimiterLineAt(text, i)

(* C30: parseFrontMatter of a text whose first line is not exactly ---, or *)
(* that has no later line that is exactly ---, returns an empty metadata   *)
(* mapping and, as the body, the whole text as it was given.               *)
C30_NoFrontMatterIsAllBody ==
    Applied("parseFrontMatter") /\ ~HasFrontMatter(run.content) =>
        ret.value = [meta |-> <<>>, body |-> run.content]

\* A text that opens with --- and has no second ---, with a line that ends
\* in a carriage return and a line feed, came back whole.
C30_Witness ==
    /\ Applied("parseFrontMatter")
    /\ run.content = <<"---", CR, LF, "a">>
    /\ ret.value.meta = <<>>
    /\ ret.value.body = run.content

----------------------------------------------------------------------------
(* Claims C31..C40                                                         *)

PreferredKeys == << <<"id">>, <<"title">>, <<"due">>, <<"createdAt">>, <<"updatedAt">> >>

\* The keys of a mapping in the order they are written: the preferred ones
\* it has, in their fixed order, then its other keys in its own order.
WrittenKeys(m) ==
    SelectSeq(PreferredKeys, LAMBDA k : \E i \in DOMAIN m : m[i].key = k)
        \o SelectSeq([i \in DOMAIN m |-> m[i].key],
                     LAMBDA k : \A j \in DOMAIN PreferredKeys : PreferredKeys[j] # k)

\* The texts of a sequence one after the other.
RECURSIVE Concat(_)
Concat(texts) == IF Len(texts) = 0 THEN <<>> ELSE texts[1] \o Concat(Tail(texts))

(* C31: serializeFrontMatter writes the line ---, then one line key: value *)
(* for each of id, title, due, createdAt, updatedAt the mapping has, in    *)
(* that order, then one for each other key in the order of the mapping,    *)
(* null written as the text null, then the line ---, then the body.        *)
C31_SerializedLayout ==
    Applied("serializeFrontMatter") =>
        LET keys == WrittenKeys(run.meta)
            valueOf(k) == run.meta[CHOOSE i \in DOMAIN run.meta : run.meta[i].key = k].value
            written(k) == IF valueOf(k) = NullValue THEN <<"null">> ELSE valueOf(k)
        IN  ret.value =
                <<"---", LF>>
                    \o Concat([i \in DOMAIN keys |->
                                  keys[i] \o <<COLON, SP>> \o written(keys[i]) \o <<LF>>])
                    \o <<"---", LF>> \o run.body

\* A mapping that holds note before title, title being null, was written
\* with the title line first and the text null for its value.
C31_Witness ==
    /\ Applied("serializeFrontMatter")
    /\ run.meta = <<[key |-> <<"note">>, value |-> <<"A">>],
                     [key |-> <<"title">>, value |-> NullValue]>>
    /\ run.body = <<"a", LF, LF, "b">>
    /\ ret.value = <<"---", LF, "title", COLON, SP, "null", LF,
                     "note", COLON, SP, "A", LF, "---", LF, "a", LF, LF, "b">>

\* The lines of a text that hold something else than whitespace.
SolidLines(text) ==
    SelectSeq(splitLines(text), LAMBDA line : \E i \in DOMAIN line : line[i] \notin Whitespace)

(* C32: the title of a loaded card is the title of the front matter when   *)
(* that is a string that is not blank, else the first line of the body     *)
(* that is not blank, trimmed, else the text Untitled; the id of a loaded  *)
(* card is the id of the file name.                                        *)
C32_LoadedTitleAndId ==
    Applied("loadCard") =>
        LET parsed == parseFrontMatter(run.text)
            metaTitle == metaGet(parsed.meta, <<"title">>)
            solid == SolidLines(parsed.body)
        IN  /\ ret.value.id = run.cardId
            /\ ret.value.title =
                  IF metaTitle \notin {NullValue, Absent} /\ trimText(metaTitle) # <<>>
                  THEN metaTitle
                  ELSE IF Len(solid) > 0 THEN trimText(solid[1])
                  ELSE <<"Untitled">>

\* A file whose front matter names another id and no title, and whose body
\* opens with a blank line, was loaded under the id of its file name with
\* the second line of its body, trimmed, as the title.
C32_Witness ==
    /\ Applied("loadCard")
    /\ metaGet(parseFrontMatter(run.text).meta, <<"id">>) = <<"other">>
    /\ metaGet(parseFrontMatter(run.text).meta, <<"title">>) = NullValue
    /\ parseFrontMatter(run.text).body = <<SP, LF, SP, "x", COLON, SP, LF, "y">>
    /\ ret.value.id = "c1"
    /\ ret.value.title = <<"x", COLON>>

----------------------------------------------------------------------------
(* createCard, deleteCard and deleteColumn, one file operation at a time   *)

\* The file operations an operation still has to make, in the order of its
\* awaits, after readIndex returned r and the operation computed out.
pendingOf(op, data, r, out) ==
    CASE op = "createCard" ->
            <<[do |-> "writeFile", cards |-> out.cards],
              [do |-> "writeIndex", file |-> out.file]>>
      [] op = "deleteCard" ->
            <<[do |-> "writeIndex", file |-> out.file],
              [do |-> "delete", id |-> data.cardId]>>
      [] op = "deleteColumn" ->
            LET removedCards == Get(r.index.order, data.columnId)
            IN  <<[do |-> "writeIndex", file |-> out.file]>>
                    \o [i \in DOMAIN removedCards |->
                            [do |-> "delete", id |-> removedCards[i]]]

\* The card ids the persisted index refers to.
Referenced(file) ==
    IF file.kind = "json"
    THEN UNION {Range(file.order[k]) : k \in DOMAIN file.order}
    ELSE {}

\* The operation runs up to the return of readIndex (which may have written
\* the default index) and, when it throws, to its end.
Begin(op, data, out) ==
    /\ pc = "idle"
    /\ ops < MaxOps
    /\ ops' = ops + 1
    /\ IF out.result = "ok"
       THEN /\ indexFile' = readIndex.file
            /\ pc' = "running"
            /\ run' = [op |-> op, pending |-> pendingOf(op, data, readIndex, out),
                       agreed |-> Referenced(indexFile) \subseteq DOMAIN cardFiles]
            /\ last' = [op |-> op, result |-> "running"]
       ELSE /\ indexFile' = out.file
            /\ pc' = "idle"
            /\ run' = None
            /\ last' = [op |-> op, result |-> out.result]
    /\ DEFAULT_COLUMNS' = out.defaults
    /\ nextId' = out.gen
    /\ ret' = None
    /\ UNCHANGED <<cardFiles, handlers, otherIndexFile>>

CreateCardBegin ==
    \E data \in CreateCardArgs : Begin("createCard", data, createCard(data))

DeleteCardBegin ==
    \E data \in DeleteCardArgs : Begin("deleteCard", data, deleteCard(data))

DeleteColumnBegin ==
    \E data \in DeleteColumnArgs : Begin("deleteColumn", data, deleteColumn(data))

\* The next file operation of the running operation.
FileOperation ==
    /\ pc = "running"
    /\ Len(run.pending) > 0
    /\ LET step == run.pending[1]
       IN  /\ indexFile' = IF step.do = "writeIndex" THEN step.file ELSE indexFile
           /\ cardFiles' = CASE step.do = "writeFile" -> step.cards
                              [] step.do = "delete" ->
                                    deleteCardFiles(cardFiles, <<step.id>>)
                              [] OTHER -> cardFiles
    /\ run' = [run EXCEPT !.pending = Tail(@)]
    /\ UNCHANGED <<DEFAULT_COLUMNS, nextId, pc, ret, last, ops, handlers, otherIndexFile>>

\* The running operation returns.
Return ==
    /\ pc = "running"
    /\ Len(run.pending) = 0
    /\ pc' = "idle"
    /\ last' = [op |-> run.op, result |-> "ok"]
    /\ UNCHANGED <<indexFile, cardFiles, DEFAULT_COLUMNS, nextId, run, ret, ops, handlers, otherIndexFile>>

NextSteps ==
    \/ CreateCardBegin
    \/ DeleteCardBegin
    \/ DeleteColumnBegin
    \/ FileOperation
    \/ Return
    \/ UpdateCard
    \/ MoveCard
    \/ ReorderCards
    \/ UpdateColumn
    \/ ReorderColumns
    \/ CreateColumn

SpecSteps == Init /\ [][NextSteps]_vars

(* C33: while a createCard, deleteCard or deleteColumn that began on a     *)
(* board whose index referred to existing card files only is running, the  *)
(* persisted index refers to no card id that has no file.                  *)
C33_NoDanglingIdWhileRunning ==
    pc = "running" /\ run.agreed => Referenced(indexFile) \subseteq DOMAIN cardFiles

\* The handler of h was invoked for a message of a mutation type.
HandlesMutation(h) ==
    /\ Handler(h).pc # "none"
    /\ OperationOf(Handler(h).msg.type) \in MutationOps

KeepingOps ==
    {"createCard", "updateCard", "moveCard", "reorderCards",
     "createColumn", "updateColumn", "reorderColumns"}

(* C35: createCard, updateCard, moveCard, reorderCards, createColumn,      *)
(* updateColumn and reorderColumns, whatever their arguments, leave every  *)
(* card file in place, and the readState that follows returns the id of    *)
(* every card file in the order list of some column and in cards.          *)
C35_OnlyDeletesRemoveCards ==
    [][/\ pc = "idle" /\ ops' = ops + 1 /\ last'.op \in KeepingOps
            => DOMAIN cardFiles \subseteq DOMAIN cardFiles'
       /\ pc = "loading" /\ pc' = "idle"
            => \A id \in DOMAIN cardFiles' :
                  /\ id \in OrderedIds(ret')
                  /\ id \in DOMAIN ret'.cards]_vars

\* readState returned a card that the index it read listed nowhere: an
\* operation had taken the id out of its list.
C35_Witness ==
    /\ Returned
    /\ Orphans # {}
    /\ Orphans \subseteq OrderedIds(ret) \cap DOMAIN ret.cards

\* The ids with a card file in the list the index file holds for column k.
PersistedWithFile(file, k) ==
    IF file.kind = "json"
    THEN {id \in Range(Get(normalizeIndex(file).order, k)) : id \in DOMAIN cardFiles}
    ELSE {}

(* C36: readState takes no id whose card file exists out of the list the   *)
(* index file holds for a column, and so moves none to another column,     *)
(* also when the listing of the card directory fails during the call.      *)
C36_ReadStateKeepsListedCards ==
    [][pc = "idle" /\ pc' = "loading" /\ indexFile.kind = "json"
          => \A k \in ColumnIds(normalizeIndex(indexFile)) :
                PersistedWithFile(indexFile, k) \subseteq PersistedWithFile(indexFile', k)]_vars

\* The order a readState of the files as they are would return.
ListedNow(file, ids) ==
    reconcile(readIndexFrom(file).index, CHOOSE l \in Listings(ids) : TRUE).order

(* C37: after a successful deleteColumn of column c, every card that a     *)
(* readState just before it listed under a column other than c still has   *)
(* its file and is listed by a readState just after it.                    *)
C37_DeleteColumnSparesOtherColumns ==
    [][\A data \in DeleteColumnArgs :
          /\ last'.op = "deleteColumn" /\ last'.result = "ok"
          /\ Complete("deleteColumn", data, deleteColumn(data))
          => LET before == ListedNow(indexFile, DOMAIN cardFiles)
                 after == ListedNow(indexFile', DOMAIN cardFiles')
             IN  \A k \in (DOMAIN before) \ {data.columnId} :
                    \A id \in Range(before[k]) :
                       /\ id \in DOMAIN cardFiles'
                       /\ \E j \in DOMAIN after : id \in Range(after[j])]_vars

----------------------------------------------------------------------------
(* Two storages of one process: createStorage called twice, over two       *)
(* roots. The module-level DEFAULT_COLUMNS is the only thing they share.   *)
(* The second root holds no card file.                                     *)

\* readState of the second storage: the index file it leaves and the
\* state it returns.
readStateOther ==
    LET r == readIndexFrom(otherIndexFile)
        rec == reconcile(r.index, <<>>)
    IN  [file |-> persistRepair(r, rec),
         state |-> [columns |-> r.index.columns, order |-> rec.order,
                    cards |-> << >>]]

ReadStateOther ==
    /\ pc = "idle"
    /\ otherIndexFile' = readStateOther.file
    /\ ret' = None
    /\ run' = None
    /\ last' = [op |-> "readState", result |-> "ok", root |-> "other",
                state |-> readStateOther.state]
    /\ UNCHANGED <<indexFile, cardFiles, DEFAULT_COLUMNS, nextId, pc, ops, handlers>>

NextTwo == NextOps \/ ReadStateOther

SpecTwo == Init /\ [][NextTwo]_vars

(* C38: no operation on one storage changes the state that readState       *)
(* returns for a storage over another root, also while the index file of   *)
(* that other storage is missing and its readState heals it to the         *)
(* defaults.                                                               *)
C38_StoragesAreIndependent ==
    [][readStateOther'.state = readStateOther.state]_vars

\* The index file and the card files agree: a readState would write no
\* index, neither to heal it nor to repair it.
Agree(file, ids) ==
    /\ file.kind = "json"
    /\ ~readIndexFrom(file).wrote
    /\ \A l \in Listings(ids) : ~reconcile(readIndexFrom(file).index, l).orderChanged

\* The columns and cards that data names exist, the cards in the columns it
\* names for them.
IsColumn(data, name) ==
    name \in DOMAIN data /\ data[name] \in ColumnIds(readIndex.index)
IsCard(data) ==
    "cardId" \in DOMAIN data /\ data.cardId \in DOMAIN cardFiles
AreCardsOf(list, columnId) ==
    \A i \in DOMAIN list :
        /\ list[i] \in DOMAIN cardFiles
        /\ list[i] \in Range(Get(readIndex.index.order, columnId))
RefersToExisting(op, data) ==
    CASE op = "createCard" -> "columnId" \in DOMAIN data => IsColumn(data, "columnId")
      [] op \in {"updateCard", "deleteCard"} -> IsCard(data)
      [] op = "moveCard" ->
            /\ IsCard(data)
            /\ IsColumn(data, "fromColumnId") /\ IsColumn(data, "toColumnId")
            /\ data.cardId \in Range(Get(readIndex.index.order, data.fromColumnId))
      [] op = "reorderCards" ->
            /\ IsColumn(data, "columnId")
            /\ "orderedIds" \in DOMAIN data
            /\ AreCardsOf(data.orderedIds, data.columnId)
      [] op \in {"updateColumn", "deleteColumn"} -> IsColumn(data, "columnId")
      [] op = "reorderColumns" ->
            /\ "orderedIds" \in DOMAIN data
            /\ Range(data.orderedIds) \subseteq ColumnIds(readIndex.index)
      [] OTHER -> TRUE

\* The mutation op, called with data on files that agree, succeeded.
SucceedsInAgreement(op, data, out) ==
    /\ last'.op = op /\ last'.result = "ok"
    /\ Agree(indexFile, DOMAIN cardFiles)
    /\ RefersToExisting(op, data)
    /\ Complete(op, data, out)

(* C39: when the index file and the card files agree, a mutation that      *)
(* succeeds and names only existing columns and cards, the cards in their  *)
(* actual columns, leaves them in agreement: the readState that follows    *)
(* writes no index.                                                        *)
C39_MutationsKeepAgreement ==
    [][(\/ \E data \in CreateCardArgs :
             SucceedsInAgreement("createCard", data, createCard(data))
        \/ \E data \in UpdateCardArgs :
             SucceedsInAgreement("updateCard", data, updateCard(data))
        \/ \E data \in DeleteCardArgs :
             SucceedsInAgreement("deleteCard", data, deleteCard(data))
        \/ \E data \in MoveCardArgs :
             SucceedsInAgreement("moveCard", data, moveCard(data))
        \/ \E data \in ReorderCardsArgs :
             SucceedsInAgreement("reorderCards", data, reorderCards(data))
        \/ \E data \in UpdateColumnArgs :
             SucceedsInAgreement("updateColumn", data, updateColumn(data))
        \/ \E data \in ReorderColumnsArgs :
             SucceedsInAgreement("reorderColumns", data, reorderColumns(data))
        \/ \E data \in CreateColumnArgs :
             SucceedsInAgreement("createColumn", data, createColumn(data))
        \/ \E data \in DeleteColumnArgs :
             SucceedsInAgreement("deleteColumn", data, deleteColumn(data)))
          => Agree(indexFile', DOMAIN cardFiles')]_vars

\* The operations that work on the index file alone.
IndexOnlyOps ==
    {"moveCard", "reorderCards", "createColumn", "updateColumn", "reorderColumns"}

(* C40: updateCard, however it ends, leaves the index file as it is and    *)
(* changes no card file but the one cardId names, creating and deleting    *)
(* none; moveCard, reorderCards, createColumn, updateColumn and            *)
(* reorderColumns leave every card file as it is.                          *)
C40_EachMutationKeepsToItsStore ==
    [][/\ \A data \in UpdateCardArgs :
             /\ last'.op = "updateCard"
             /\ Complete("updateCard", data, updateCard(data))
             => /\ indexFile' = indexFile
                /\ DOMAIN cardFiles' = DOMAIN cardFiles
                /\ \A id \in DOMAIN cardFiles :
                      cardFiles'[id] # cardFiles[id]
                         => "cardId" \in DOMAIN data /\ id = data.cardId
       /\ pc = "idle" /\ ops' = ops + 1 /\ last'.op \in IndexOnlyOps
             => cardFiles' = cardFiles]_vars

\* updateCard rewrote a card while there was no readable index file, and
\* left it so.
C40_Witness ==
    /\ last.op = "updateCard" /\ last.result = "ok"
    /\ indexFile.kind # "json"
    /\ \E id \in DOMAIN cardFiles : cardFiles[id] = CardContent("Updated")

============================================================================
